---- MODULE Spec2Model ----
(***************************************************************************)
(* One run of the 'anot' command line program (src/src/main.rs): resolve   *)
(* the settings path, load the settings file, then process one agent-A     *)
(* (Claude Code hook) or agent-B (Codex notify) event: parse the input,    *)
(* call the platform notification, write the acknowledgment.               *)
(*                                                                         *)
(* Texts are TLA+ strings.  JSON values are tagged records, one field name *)
(* per tag, so that values of different JSON types are never compared      *)
(* field against field.                                                    *)
(***************************************************************************)
EXTENDS Integers, Sequences, FiniteSets, TLC

(***************************************************************************)
(* Bounds of the model.                                                    *)
(***************************************************************************)
\* number of process runs in one behaviour
MaxRuns == 2
\* number of edits the user makes to the settings files in one behaviour
MaxEdits == 1
\* longest input-messages array of an agent-B sample document
MaxInputMessages == 2

(***************************************************************************)
(* JSON values.                                                            *)
(***************************************************************************)
JStr(s)  == [t |-> "str", s |-> s]
JNum(n)  == [t |-> "num", n |-> n]
JBool(b) == [t |-> "bool", b |-> b]
JNull    == [t |-> "null"]
\* an array of strings (the only arrays the schemas of this program name)
JArr(a)  == [t |-> "arr", a |-> a]
\* an object: its members in document order
JObj(m)  == [t |-> "obj", m |-> m]
KV(k, v) == [k |-> k, v |-> v]

Quote(s) == "\"" \o s \o "\""

RECURSIVE JoinWith(_, _)
\* [String]::join(sep)
JoinWith(seq, sep) ==
    IF seq = <<>> THEN ""
    ELSE IF Len(seq) = 1 THEN seq[1]
    ELSE seq[1] \o sep \o JoinWith(Tail(seq), sep)

RECURSIVE ToJsonWith(_, _)
\* the compact text of a value, members in order, with q written for every
\* quotation mark.  The sample strings hold no character that JSON escapes.
ToJsonWith(v, q) ==
    CASE v.t = "str"  -> q \o v.s \o q
      [] v.t = "num"  -> ToString(v.n)
      [] v.t = "bool" -> IF v.b THEN "true" ELSE "false"
      [] v.t = "null" -> "null"
      [] v.t = "arr"  -> "[" \o JoinWith([i \in 1..Len(v.a) |-> q \o v.a[i] \o q], ",") \o "]"
      [] v.t = "obj"  -> "{" \o JoinWith([i \in 1..Len(v.m) |->
                                 q \o v.m[i].k \o q \o ":" \o ToJsonWith(v.m[i].v, q)], ",")
                             \o "}"

\* serde_json::to_string of a value
ToJson(v) == ToJsonWith(v, "\"")

(***************************************************************************)
(* Results and options.                                                    *)
(***************************************************************************)
Ok(x)   == [ok |-> TRUE, val |-> x]
Err(e)  == [ok |-> FALSE, err |-> e]
Some(x) == [some |-> TRUE, v |-> x]
None    == [some |-> FALSE]
\* the value () of a function that returns nothing
Unit == "()"

(***************************************************************************)
(* Typed deserialization, as serde's derived Deserialize does it for the   *)
(* structs and enums of this program.                                      *)
(***************************************************************************)
\* a field: its Rust name, the key that names it in a document, its type, and
\* whether it is an Option of that type
Field(name, wire, ty, opt) == [name |-> name, wire |-> wire, ty |-> ty, opt |-> opt]

\* a field whose key is its Rust name (rename_all = "snake_case", or none)
Plain(name, ty, opt) == Field(name, name, ty, opt)

\* a schema that spells the agent-B fields in snake_case
CodexNotificationInputSchema_snake_case ==
    << Plain("type", "NotificationType", FALSE),
       Plain("turn_id", "String", TRUE),
       Plain("input_messages", "Vec<String>", TRUE),
       Plain("last_assistant_message", "String", TRUE) >>

\* CodexNotificationInput, rename_all = "kebab-case"
CodexNotificationInputSchema ==
    << Field("type", "type", "NotificationType", FALSE),
       Field("turn_id", "turn-id", "String", TRUE),
       Field("input_messages", "input-messages", "Vec<String>", TRUE),
       Field("last_assistant_message", "last-assistant-message", "String", TRUE) >>

\* the fields of each struct, in declaration order; opt marks Option<ty>
Schema(ty) ==
    CASE ty = "HookInput" ->
           << Plain("session_id", "String", FALSE),
              Plain("transcript_path", "String", FALSE),
              Plain("cwd", "String", TRUE),
              Plain("hook_event_name", "HookEventName", FALSE),
              Plain("tool_name", "String", TRUE),
              Plain("tool_input", "Value", TRUE),
              Plain("tool_response", "Value", TRUE),
              Plain("message", "String", TRUE),
              Plain("prompt", "String", TRUE),
              Plain("stop_hook_active", "bool", TRUE),
              Plain("trigger", "PreCompactTrigger", TRUE),
              Plain("custom_instructions", "String", TRUE),
              Plain("source", "SessionStartSource", TRUE),
              Plain("reason", "SessionEndReason", TRUE) >>
      [] ty = "CodexNotificationInput" -> CodexNotificationInputSchema
      [] ty = "Config" ->
           << Plain("version", "u32", FALSE),
              Plain("claude", "Claude", FALSE),
              Plain("codex", "Codex", FALSE) >>
      [] ty = "Claude" -> << Plain("pretend", "bool", FALSE) >>
      [] ty = "Codex"  -> << Plain("pretend", "bool", FALSE) >>

StructTypes == {"HookInput", "CodexNotificationInput", "Config", "Claude", "Codex"}

HookEventNames ==
    << "PreToolUse", "PostToolUse", "Notification", "UserPromptSubmit", "Stop",
       "SubagentStop", "PreCompact", "SessionStart", "SessionEnd" >>

\* the wire name of each unit variant after rename_all
EnumWire(ty) ==
    CASE ty = "HookEventName" ->
           [w \in {HookEventNames[i] : i \in 1..Len(HookEventNames)} |-> w]
      [] ty = "PreCompactTrigger" -> ("manual" :> "Manual") @@ ("auto" :> "Auto")
      [] ty = "SessionStartSource" ->
           ("startup" :> "Startup") @@ ("resume" :> "Resume") @@ ("clear" :> "Clear")
      [] ty = "SessionEndReason" ->
           ("clear" :> "Clear") @@ ("logout" :> "Logout")
             @@ ("promptInputExit" :> "PromptInputExit") @@ ("other" :> "Other")
      [] ty = "NotificationType" -> ("agent-turn-complete" :> "AgentTurnComplete")

EnumTypes == {"HookEventName", "PreCompactTrigger", "SessionStartSource",
              "SessionEndReason", "NotificationType"}

\* a NotificationType without a #[serde(other)] variant
EnumOther_none(ty) == ""

\* the #[serde(other)] variant of an enum, "" when it has none
EnumOther(ty) == IF ty = "NotificationType" THEN "Unknown" ELSE ""

SchemaIndex(schema, k) ==
    IF \E i \in 1..Len(schema) : schema[i].wire = k
    THEN CHOOSE i \in 1..Len(schema) : schema[i].wire = k
    ELSE 0

RECURSIVE DeserValue(_, _)
RECURSIVE DeserMap(_, _, _, _)
RECURSIVE DeserSeq(_, _, _, _)

DeserField(f, v) ==
    IF f.opt
    THEN IF v.t = "null" THEN Ok(None)
         ELSE LET r == DeserValue(f.ty, v) IN IF r.ok THEN Ok(Some(r.val)) ELSE r
    ELSE DeserValue(f.ty, v)

\* a field the document does not carry: None for an Option, an error otherwise
MissingField(f) ==
    IF f.opt THEN Ok(None) ELSE Err("missing field '" \o f.wire \o "'")

\* visit_map: members in document order; unknown keys are ignored, a known
\* key met twice is an error, then the fields not met are filled in
DeserMap(schema, m, i, acc) ==
    IF i > Len(m)
    THEN IF \E j \in 1..Len(schema) :
               schema[j].name \notin DOMAIN acc /\ ~MissingField(schema[j]).ok
         THEN MissingField(schema[CHOOSE j \in 1..Len(schema) :
                  /\ schema[j].name \notin DOMAIN acc /\ ~MissingField(schema[j]).ok
                  /\ \A l \in 1..(j-1) :
                        schema[l].name \in DOMAIN acc \/ MissingField(schema[l]).ok])
         ELSE Ok([n \in {schema[j].name : j \in 1..Len(schema)} |->
                     IF n \in DOMAIN acc THEN acc[n] ELSE None])
    ELSE LET k   == m[i].k
             idx == SchemaIndex(schema, k)
         IN  IF idx = 0 THEN DeserMap(schema, m, i + 1, acc)
             ELSE IF schema[idx].name \in DOMAIN acc
                  THEN Err("duplicate field '" \o k \o "'")
             ELSE LET r == DeserField(schema[idx], m[i].v)
                  IN  IF r.ok
                      THEN DeserMap(schema, m, i + 1, acc @@ (schema[idx].name :> r.val))
                      ELSE r

\* visit_seq: the i-th element is the i-th field
DeserSeq(schema, a, i, acc) ==
    IF i > Len(schema)
    THEN IF Len(a) > Len(schema) THEN Err("trailing characters")
         ELSE Ok([n \in {schema[j].name : j \in 1..Len(schema)} |-> acc[n]])
    ELSE LET r == IF i <= Len(a) THEN DeserField(schema[i], JStr(a[i]))
                  ELSE IF schema[i].opt THEN Ok(None)
                  ELSE Err("invalid length")
         IN  IF r.ok THEN DeserSeq(schema, a, i + 1, acc @@ (schema[i].name :> r.val))
             ELSE r

DeserValue(ty, v) ==
    CASE ty = "String" -> IF v.t = "str" THEN Ok(v.s) ELSE Err("invalid type")
      [] ty = "bool"   -> IF v.t = "bool" THEN Ok(v.b) ELSE Err("invalid type")
      \* every non-negative number of the model is below 2^32
      [] ty = "u32"    -> IF v.t # "num" THEN Err("invalid type")
                          ELSE IF v.n < 0 THEN Err("invalid value")
                          ELSE Ok(v.n)
      [] ty = "Value"  -> Ok(v)
      [] ty = "Vec<String>" -> IF v.t = "arr" THEN Ok(v.a) ELSE Err("invalid type")
      \* serde_json's deserialize_enum reads a unit variant from a string, or
      \* from an object: the first key names the variant, its value is null
      \* (the unit) and the object ends there; an object with no member,
      \* what follows the first member, and every value that is neither
      \* string nor object are "expected value", the error of a text that is
      \* not JSON
      [] ty \in EnumTypes ->
           LET variant(name) ==
                   IF name \in DOMAIN EnumWire(ty) THEN Ok(EnumWire(ty)[name])
                   ELSE IF EnumOther(ty) # "" THEN Ok(EnumOther(ty))
                   ELSE Err("unknown variant '" \o name \o "'")
           IN  CASE v.t = "str" -> variant(v.s)
                 [] v.t = "obj" ->
                      IF Len(v.m) = 0 THEN Err("syntax error")
                      ELSE IF ~variant(v.m[1].k).ok THEN variant(v.m[1].k)
                      ELSE IF v.m[1].v.t # "null" THEN Err("invalid type")
                      ELSE IF Len(v.m) > 1 THEN Err("syntax error")
                      ELSE variant(v.m[1].k)
                 [] OTHER -> Err("syntax error")
      [] ty \in StructTypes ->
           IF v.t = "obj" THEN DeserMap(Schema(ty), v.m, 1, <<>>)
           ELSE IF v.t = "arr" THEN DeserSeq(Schema(ty), v.a, 1, <<>>)
           ELSE Err("invalid type")

(***************************************************************************)
(* The documents the runs are fed: agent-A hook events, agent-B            *)
(* notifications and settings files.  A text is what ToJson writes for one *)
(* of them, or one of the texts that are not JSON.                         *)
(***************************************************************************)
SeqsUpTo(S, n) == UNION {[1..k -> S] : k \in 0..n}

ABase(kind) ==
    << KV("session_id", JStr("s1")), KV("transcript_path", JStr("/t.jsonl")),
       KV("hook_event_name", JStr(kind)) >>

NineKinds == {HookEventNames[i] : i \in 1..Len(HookEventNames)}

AgentADocs ==
    \* every kind with all optional fields absent, and with an unknown key
    {JObj(ABase(k)) : k \in NineKinds}
      \cup {JObj(ABase(k) \o <<KV("permission_mode", JStr("default"))>>) : k \in {"Stop"}}
      \cup {JObj(ABase(k) \o <<KV("cwd", JStr("/w"))>>) : k \in {"SessionStart"}}
    \* the kind-specific fields: present, null, of the wrong type
      \cup {JObj(ABase(k) \o <<KV("tool_name", v)>>) :
               k \in {"PreToolUse", "PostToolUse"}, v \in {JStr("Bash"), JNull, JNum(7)}}
      \cup {JObj(ABase("Notification") \o <<KV("message", v)>>) :
               v \in {JStr("Need input"), JStr("")}}
      \cup {JObj(ABase("UserPromptSubmit") \o <<KV("prompt", v)>>) : v \in {JStr("fix it")}}
      \cup {JObj(ABase("PreCompact") \o <<KV("trigger", JStr(w))>>) :
               w \in {"manual", "auto", "weekly"}}
      \cup {JObj(ABase("SessionEnd") \o <<KV("reason", JStr(w))>>) :
               w \in {"clear", "logout", "promptInputExit", "other", "prompt_input_exit"}}
    \* documents that are JSON but not a HookInput
      \cup { JObj(ABase("Bogus")),
             JObj(Tail(ABase("Stop"))),
             JObj(ABase("Stop") \o <<KV("session_id", JStr("s2"))>>),
             JObj(<<>>), JNum(42), JStr("Stop"),
             JArr(<<"s1", "/t.jsonl">>),
             JArr(<<"s1", "/t.jsonl", "/w", "Stop">>) }

BBase(type) == << KV("type", JStr(type)) >>

MessageStrings == {"fix", ""}

AgentBDocs ==
    {JObj(BBase(ty) \o lam \o im) :
        ty \in {"agent-turn-complete"},
        lam \in {<<>>} \cup {<<KV("last-assistant-message", v)>> :
                                v \in {JStr("Done."), JStr(" "), JNull}},
        im \in {<<>>} \cup {<<KV("input-messages", JArr(a))>> :
                                a \in SeqsUpTo(MessageStrings, MaxInputMessages)}}
      \cup {JObj(BBase("agent-turn-complete") \o <<KV(k, JStr("Done."))>>) :
               k \in {"last_assistant_message", "turn-id"}}
      \cup {JObj(BBase(ty) \o lam) :
               ty \in {"some-future-type", "AgentTurnComplete"},
               lam \in {<<>>, <<KV("last-assistant-message", JStr("Done."))>>}}
      \cup { JObj(<<>>), JObj(<<KV("type", JNum(1))>>),
             JObj(BBase("agent-turn-complete") \o <<KV("input-messages", JStr("fix"))>>),
             JArr(<<"agent-turn-complete">>), JArr(<<>>) }

ConfigValue(version, claude_pretend, codex_pretend) ==
    JObj(<< KV("version", JNum(version)),
            KV("claude", JObj(<<KV("pretend", JBool(claude_pretend))>>)),
            KV("codex", JObj(<<KV("pretend", JBool(codex_pretend))>>)) >>)

SettingsDocs ==
    { ConfigValue(1, TRUE, FALSE), ConfigValue(2, FALSE, TRUE),
      JObj(<< KV("version", JNum(1)),
              KV("claude", JObj(<<KV("pretend", JBool(TRUE))>>)) >>),
      JObj(<< KV("version", JNum(1)), KV("claude", JObj(<<>>)),
              KV("codex", JObj(<<KV("pretend", JBool(FALSE))>>)) >>),
      JObj(<<>>) }

JsonDocs == AgentADocs \cup AgentBDocs \cup SettingsDocs

\* texts that are not JSON: prose, the empty text, the first line of a
\* document printed over several lines, a text with a backslash
NotJsonTexts == {"not json", "", "{", "a\\b"}

\* the line terminator that read_line leaves at the end of a line
LineEnd == "\n"

\* the texts of the documents, each also as a line with its terminator
\* (white space after a value, which serde_json skips)
JsonTexts == {[text |-> ToJson(d) \o nl, val |-> d] : d \in JsonDocs, nl \in {"", LineEnd}}

\* serde_json's reading of a text into a JSON value (library code): the
\* value whose compact form the text is, a syntax error for any other text
JsonParse(text) ==
    IF \E e \in JsonTexts : e.text = text
    THEN Ok((CHOOSE e \in JsonTexts : e.text = text).val)
    ELSE Err("syntax error")

\* serde_json::from_str::<ty>(text)
from_str(ty, text) ==
    LET p == JsonParse(text) IN IF p.ok THEN DeserValue(ty, p.val) ELSE p

(***************************************************************************)
(* Notification Dispatcher: the title and body of each event.              *)
(***************************************************************************)
unwrap_or(opt, d) == IF opt.some THEN opt.v ELSE d

\* n spaces
RECURSIVE Spaces(_)
Spaces(n) == IF n = 0 THEN "" ELSE " " \o Spaces(n - 1)

\* s.trim().is_empty(); the space is the only whitespace the sample strings hold
IsBlank(s) == s = Spaces(Len(s))

SessionEndReasonText(r) ==
    CASE r = "Clear"           -> "the user ran /clear."
      [] r = "PromptInputExit" -> "the user exited while prompt input was visible."
      [] r = "Logout"          -> "the user logged out."
      [] r = "Other"           -> "the session ended for unspecified reason."

\* a tool name fallback with the article corrected
tool_name_or_default_an(hook_input) == unwrap_or(hook_input.tool_name, "an unknown tool")

\* hook_input.tool_name.as_deref().unwrap_or("a unknown tool")
tool_name_or_default(hook_input) == unwrap_or(hook_input.tool_name, "a unknown tool")

\* the body send_notification of agent A hands to create_claude_notification
claude_notification_body(hook_input) ==
    LET kind == hook_input.hook_event_name IN
    CASE kind = "PreToolUse" ->
           "The agent is trying to use " \o tool_name_or_default(hook_input)
      [] kind = "PostToolUse" ->
           "The agent has used " \o tool_name_or_default(hook_input)
      [] kind = "Notification" ->
           unwrap_or(hook_input.message, "The agent didn't provide any message.")
      [] kind = "UserPromptSubmit" ->
           "User prompt submitted: " \o unwrap_or(hook_input.prompt, "unknown")
      [] kind = "Stop" -> "The agent has stopped responding."
      [] kind = "SubagentStop" -> "A subagent has stopped responding."
      [] kind = "PreCompact" ->
           \* format!("{:?}", t): the variant's name
           "The agent is about to compact the conversation. Trigger: "
              \o unwrap_or(hook_input.trigger, "unknown")
      [] kind = "SessionStart" -> "The agent has started a new session."
      [] kind = "SessionEnd" ->
           "The agent has ended the session because "
              \o (IF hook_input.reason.some
                  THEN SessionEndReasonText(hook_input.reason.v) ELSE "unknown")

\* a message choice that takes last-assistant-message whenever it is present
codex_preferred_message_unfiltered(notification) ==
    LET lam == notification.last_assistant_message
        im  == notification.input_messages
        joined == JoinWith(im.v, " ")
    IN  IF lam.some THEN lam.v
        ELSE IF im.some
             THEN IF IsBlank(joined) THEN "Turn Complete!" ELSE joined
        ELSE "Turn Complete!"

\* the message of an agent-B AgentTurnComplete notification
codex_preferred_message(notification) ==
    LET lam == notification.last_assistant_message
        im  == notification.input_messages
        joined == JoinWith(im.v, " ")
    IN  IF lam.some /\ ~IsBlank(lam.v) THEN lam.v
        ELSE IF im.some
             THEN IF IsBlank(joined) THEN "Turn Complete!" ELSE joined
        ELSE "Turn Complete!"

codex_notification_body(notification) ==
    "Turn Completed: " \o codex_preferred_message(notification)

\* NotificationType::as_str
as_str(type) == IF type = "AgentTurnComplete" THEN "AgentTurnComplete" ELSE "Unknown"

\* the call create_claude_notification makes to the platform (not macOS):
\* summary and body; the icon, attached when its file can be written, is left out
create_claude_notification(body) ==
    [summary |-> "Claude Code", body |-> body]

\* the call create_codex_notification makes to the platform (not macOS)
create_codex_notification(summary, body) ==
    [summary |-> "Codex: " \o summary, body |-> body]

(***************************************************************************)
(* The acknowledgment of agent A.                                          *)
(***************************************************************************)
HookOutput_default ==
    [continue |-> Some(TRUE), stop_reason |-> None, suppress_output |-> Some(FALSE),
     system_message |-> None, decision |-> None, reason |-> None,
     hook_specific_output |-> None]

\* the members Serialize writes for a HookOutput: camelCase names, continue
\* always, every other field only when it is Some
SerializeHookOutput(o) ==
    JObj( << KV("continue", IF o.continue.some THEN JBool(o.continue.v) ELSE JNull) >>
          \o (IF o.stop_reason.some THEN <<KV("stopReason", JStr(o.stop_reason.v))>> ELSE <<>>)
          \o (IF o.suppress_output.some
              THEN <<KV("suppressOutput", JBool(o.suppress_output.v))>> ELSE <<>>)
          \o (IF o.system_message.some
              THEN <<KV("systemMessage", JStr(o.system_message.v))>> ELSE <<>>)
          \o (IF o.decision.some THEN <<KV("decision", JStr(o.decision.v))>> ELSE <<>>)
          \o (IF o.reason.some THEN <<KV("reason", JStr(o.reason.v))>> ELSE <<>>)
          \o (IF o.hook_specific_output.some
              THEN <<KV("hookSpecificOutput", o.hook_specific_output.v)>> ELSE <<>>) )

\* the unterminated texts of the model, each with the text str::escape_debug
\* makes of it: every quotation mark and every backslash with a backslash
\* before it
EscapedTexts ==
    {[text |-> ToJson(d), escaped |-> ToJsonWith(d, "\\\"")] : d \in JsonDocs}
      \cup {[text |-> t, escaped |-> t] :
               t \in {"not json", "", "{", "notify-send", "Codex", "codex",
                      "/usr/local/bin/anot", "/opt/tools/notifier"}}
      \cup {[text |-> "a\\b", escaped |-> "a\\\\b"]}

\* str::escape_debug on the texts of the model; a line terminator at the end
\* becomes a backslash and the letter n
escape_debug(s) ==
    IF \E e \in EscapedTexts : e.text = s
    THEN (CHOOSE e \in EscapedTexts : e.text = s).escaped
    ELSE (CHOOSE e \in EscapedTexts : e.text \o LineEnd = s).escaped \o "\\n"

\* format!("{:?}") of a string: the escaped text between quotation marks
DebugStr(s) == Quote(escape_debug(s))

(***************************************************************************)
(* Settings Store.                                                         *)
(***************************************************************************)
ConfigDirPath == "<config_dir>/agent_notifications/a-notifications.json"
CwdPath       == "<cwd>/a-notifications.json"
CustomPath    == "/tmp/custom.json"
SettingsPaths == {ConfigDirPath, CwdPath, CustomPath}

Absent     == [exists |-> FALSE]
File(text) == [exists |-> TRUE, text |-> text]

\* the machines of the model, each with the environment of the process:
\* "config_dir" HOME is set, and the home directory holds the per-user
\* configuration directory; "xdg" XDG_CONFIG_HOME is set and HOME is not;
\* "home_empty" XDG_CONFIG_HOME is set and HOME is the empty text; "cwd"
\* neither is set and no home directory is known, there is a current
\* directory; "none" as "cwd", without a current directory
Environments == {"config_dir", "xdg", "home_empty", "cwd", "none"}

\* get_config_path: the file in dirs::config_dir(), which is
\* $XDG_CONFIG_HOME or the .config of the home directory, else the file in
\* env::current_dir(), else None
get_config_path(e) ==
    IF e \in {"config_dir", "xdg", "home_empty"} THEN Some(ConfigDirPath)
    ELSE IF e = "cwd" THEN Some(CwdPath)
    ELSE None

\* defaults in which agent B pretends as agent A does
Config_default_codex_pretends ==
    [version |-> 1, claude |-> [pretend |-> TRUE], codex |-> [pretend |-> TRUE]]

Config_default == [version |-> 1, claude |-> [pretend |-> TRUE], codex |-> [pretend |-> FALSE]]

\* the JSON value Serialize writes for a Config
SerializeConfig(c) == ConfigValue(c.version, c.claude.pretend, c.codex.pretend)

\* the io::Error of a file operation that the file system refuses (the
\* text of the operating system stands behind the name of the operation)
IoError(op) == op \o ": os error"

\* how the file system answers a call of the Settings Store: "ok" it lets
\* every operation through; "remove_file" it refuses fs::remove_file;
\* "create" it refuses fs::create_dir_all or the creation of the file, and
\* no file is there afterwards; "write" it creates or truncates the file and
\* refuses the write before the first byte, and an empty file is there
\* afterwards; "short_write" it refuses the write after a part of the text,
\* and a file with the first bytes of the text is there afterwards; "read"
\* it refuses fs::read_to_string
InitializeOutcomes(files, path) ==
    {"ok", "read"}
      \cup (IF files[path].exists THEN {} ELSE {"create", "write", "short_write"})

ResetOutcomes(files, path) ==
    {"ok", "create", "write", "short_write"}
      \cup (IF files[path].exists THEN {"remove_file"} ELSE {})

\* create_default_config(path): the file system it leaves and its result.
\* A write refused after a part leaves a proper prefix of the text of the
\* defaults, of which the model takes the first ten bytes.
create_default_config(files, path, io) ==
    CASE io = "create" -> [fs |-> files, result |-> Err(IoError("create"))]
      [] io = "write"  -> [fs |-> [files EXCEPT ![path] = File("")],
                           result |-> Err(IoError("write"))]
      [] io = "short_write" -> [fs |-> [files EXCEPT ![path] = File("{\"version\"")],
                                result |-> Err(IoError("write"))]
      [] OTHER -> [fs |-> [files EXCEPT
                             ![path] = File(ToJson(SerializeConfig(Config_default)))],
                   result |-> Ok(Unit)]

\* initialize_configuration(path): the file system it leaves and its result
initialize_configuration(files, path, io) ==
    LET created == IF files[path].exists THEN [fs |-> files, result |-> Ok(Unit)]
                   ELSE create_default_config(files, path, io)
    IN  IF ~created.result.ok THEN created
        ELSE IF io = "read" THEN [fs |-> created.fs, result |-> Err(IoError("read"))]
        ELSE [fs |-> created.fs, result |-> from_str("Config", created.fs[path].text)]

\* a reset that writes the defaults only where no file exists
reset_configuration_keeps_file(files, path, io) ==
    IF files[path].exists THEN [fs |-> files, result |-> Ok(Unit)]
    ELSE create_default_config(files, path, io)

\* reset_configuration(path): the file system it leaves and its result
reset_configuration(files, path, io) ==
    IF files[path].exists /\ io = "remove_file"
    THEN [fs |-> files, result |-> Err(IoError("remove_file"))]
    ELSE create_default_config([files EXCEPT ![path] = Absent], path, io)

(***************************************************************************)
(* The state: the machine (env, fs), and the current run of main.          *)
(***************************************************************************)
VARIABLES
    env,            \* what get_config_path finds on this machine
    fs,             \* the settings files: path -> Absent or File(text)
    edits,          \* the number of edits the user made to the settings files
    runs,           \* the number of runs started
    pc,             \* the position of the current run
    cli,            \* its parsed command line (Cli)
    config_path,    \* main's config_path, once resolved
    config,         \* main's config, once loaded
    input,          \* the raw text handed to process_claude_input / process_codex_input
    event,          \* the parsed HookInput / CodexNotificationInput
    sent,           \* what send_notification returned
    result,         \* what process_claude_input / process_codex_input returned
    stdout,         \* what the run wrote to standard output, in order
    stderr,         \* what the run wrote to standard error, in order
    notifications,  \* the calls the run made to the platform notification
    log,            \* the warn and error events the run logged
    exit,           \* the exit status of the run, -1 while it runs
    calls,          \* the calls made to the Settings Store, in order
    exe,            \* std::env::current_exe() of the editor
    files,          \* the agents' configuration files: path -> Absent or File(content)
    flows,          \* the number of editor flows started
    step,           \* the position of the current editor flow
    init,           \* its InitCommands: the agent and the path argument
    expanded_path,  \* its expanded_path, once chosen
    agent_config,   \* its config, once read
    selected_hooks, \* agent A: its selected_hooks, once chosen
    choice,         \* agent B: the answer to the action or the set-notify prompt
    flow_result,    \* what initialize_*_configuration returned
    started,        \* the configuration files as the current flow found them
    writes,         \* the files the current flow wrote, in order
    history         \* the flows that ended, in order

machine == <<env, fs, edits>>
locals  == <<config_path, config, input, event, sent, result>>
effects == <<stdout, stderr, notifications, log>>
run     == <<runs, pc, cli, locals, effects, exit>>
editor  == <<exe, files, flows, step, init, expanded_path, agent_config, selected_hooks,
             choice, flow_result, started, writes, history>>
vars    == <<env, fs, edits, runs, pc, cli, config_path, config, input, event, sent, result,
             stdout, stderr, notifications, log, exit, calls, exe, files, flows, step, init,
             expanded_path, agent_config, selected_hooks, choice, flow_result, started,
             writes, history>>

\* an acknowledgment document written with print!: the value whose compact
\* JSON text goes to standard output
Doc(v)  == [kind |-> "json", v |-> v]
\* a line of plain text
Line(s) == [kind |-> "text", s |-> s]

LogEvent(level, msg) == [level |-> level, msg |-> msg]

TextsOf(docs) == {ToJson(d) : d \in docs}

AgentATexts == TextsOf(AgentADocs) \cup NotJsonTexts
AgentBTexts == TextsOf(AgentBDocs) \cup NotJsonTexts
\* what the user may leave in a settings file: other values, a document
\* without the codex section, a text that is not JSON
EditedTexts ==
    { ToJson(ConfigValue(2, FALSE, TRUE)),
      ToJson(JObj(<< KV("version", JNum(1)),
                     KV("claude", JObj(<<KV("pretend", JBool(TRUE))>>)) >>)),
      "not json" }

\* the settings files a run on this machine can name
RunPaths(e) ==
    {CustomPath} \cup (IF get_config_path(e).some THEN {get_config_path(e).v} ELSE {})

\* standard input: bytes that are not UTF-8, or lines of text, each with its
\* terminator but for a last line that ends with the input
StdinContents(texts) ==
    { [utf8 |-> FALSE, lines |-> <<>>], [utf8 |-> TRUE, lines |-> <<>>],
      [utf8 |-> TRUE, lines |-> <<"not json">>],
      [utf8 |-> TRUE, lines |-> << "{" \o LineEnd,
                                   "\"type\":\"agent-turn-complete\"" \o LineEnd,
                                   "}" \o LineEnd >>] }
      \cup {[utf8 |-> TRUE, lines |-> <<t \o LineEnd>>] : t \in texts}

\* utils::catch_stdin on readable input: read_line, the first line with its
\* terminator, or the empty text at the end of the input
catch_stdin(sin) == IF sin.lines = <<>> THEN "" ELSE sin.lines[1]

Commands == {"Claude", "Codex", "Reset", "None"}

CommandLines ==
    {[command |-> c, config |-> p, notification |-> None] :
        c \in Commands, p \in {None, Some(CustomPath)}}
      \cup {[command |-> "Codex", config |-> p, notification |-> Some(t)] :
               p \in {None, Some(CustomPath)}, t \in AgentBTexts}

NoCommandLine == [command |-> "None", config |-> None, notification |-> None]

\* no editor flow: the Init command is not part of these runs
NoEditor ==
    /\ exe = "" /\ files = <<>> /\ flows = 0 /\ step = "idle"
    /\ init = None /\ expanded_path = None /\ agent_config = None
    /\ selected_hooks = None /\ choice = None /\ flow_result = None
    /\ started = <<>> /\ writes = <<>> /\ history = <<>>

\* no run of main has started
NoRun ==
    /\ runs = 0
    /\ pc = "idle"
    /\ cli = NoCommandLine
    /\ config_path = None /\ config = None /\ input = None /\ event = None
    /\ sent = None /\ result = None
    /\ stdout = <<>> /\ stderr = <<>> /\ notifications = <<>> /\ log = <<>>
    /\ exit = -1

\* the runs of the agents' events start on one machine for each answer of
\* get_config_path: they read HOME nowhere
Init ==
    /\ env \in {"config_dir", "cwd", "none"}
    /\ fs = [p \in SettingsPaths |-> Absent]
    /\ edits = 0
    /\ NoRun
    /\ calls = <<>>
    /\ NoEditor

\* the user edits or deletes a settings file between two runs
EditSettingsFile ==
    /\ pc \in {"idle", "exited"}
    /\ edits < MaxEdits
    /\ edits' = edits + 1
    /\ \E p \in RunPaths(env), f \in {Absent} \cup {File(t) : t \in EditedTexts} :
          /\ fs[p] # f
          /\ fs' = [fs EXCEPT ![p] = f]
    /\ UNCHANGED <<env, runs, pc, cli, locals, effects, exit>>
    /\ UNCHANGED <<calls, editor>>

\* a new process starts: Cli::parse()
Start ==
    /\ pc \in {"idle", "exited"}
    /\ runs < MaxRuns
    /\ runs' = runs + 1
    /\ cli' \in CommandLines
    /\ pc' = "main"
    /\ config_path' = None /\ config' = None /\ input' = None /\ event' = None
    /\ sent' = None /\ result' = None
    /\ stdout' = <<>> /\ stderr' = <<>> /\ notifications' = <<>> /\ log' = <<>>
    /\ exit' = -1
    /\ UNCHANGED machine
    /\ UNCHANGED <<calls, editor>>

\* main: get_config_path().expect(..) panics when there is no path
ResolveConfigPath ==
    /\ pc = "main"
    /\ IF get_config_path(env).some
       THEN /\ config_path' = get_config_path(env)
            /\ pc' = "resolved"
            /\ UNCHANGED <<stderr, exit>>
       ELSE /\ stderr' = Append(stderr, Line("Failed to determine config path"))
            /\ exit' = 101
            /\ pc' = "exited"
            /\ UNCHANGED config_path
    /\ UNCHANGED <<machine, runs, cli, config, input, event, sent, result,
                   stdout, notifications, log>>
    /\ UNCHANGED <<calls, editor>>

\* a Reset that resets the file main would load: --config, else config_path
ResetCommand_honours_config ==
    /\ pc = "resolved"
    /\ cli.command = "Reset"
    /\ fs' = reset_configuration(fs, unwrap_or(cli.config, config_path.v), "ok").fs
    /\ stdout' = Append(stdout, Line("Configuration reset to default at "
                                        \o unwrap_or(cli.config, config_path.v)))
    /\ exit' = 0
    /\ pc' = "exited"
    /\ UNCHANGED <<env, edits, runs, cli, locals, stderr, notifications, log>>
    /\ UNCHANGED <<calls, editor>>

\* main, command Reset: reset the file at config_path, report the outcome,
\* return Ok
ResetCommand ==
    /\ pc = "resolved"
    /\ cli.command = "Reset"
    /\ \E io \in ResetOutcomes(fs, config_path.v) :
          LET r == reset_configuration(fs, config_path.v, io)
          IN  /\ fs' = r.fs
              /\ IF r.result.ok
                 THEN /\ stdout' = Append(stdout, Line("Configuration reset to default at "
                                                          \o config_path.v))
                      /\ UNCHANGED stderr
                 ELSE /\ stderr' = Append(stderr, Line("Failed to reset configuration: "
                                                          \o r.result.err))
                      /\ UNCHANGED stdout
    /\ exit' = 0
    /\ pc' = "exited"
    /\ UNCHANGED <<env, edits, runs, cli, locals, notifications, log>>
    /\ UNCHANGED <<calls, editor>>

\* main: initialize_configuration(cli.config or config_path)?
LoadSettings ==
    /\ pc = "resolved"
    /\ cli.command # "Reset"
    /\ \E io \in InitializeOutcomes(fs, unwrap_or(cli.config, config_path.v)) :
          LET r == initialize_configuration(fs, unwrap_or(cli.config, config_path.v), io)
          IN  /\ fs' = r.fs
              /\ IF r.result.ok
                 THEN /\ config' = Some(r.result.val)
                      /\ pc' = "loaded"
                      /\ UNCHANGED <<stderr, exit>>
                 ELSE /\ stderr' = Append(stderr, Line("Error: " \o r.result.err))
                      /\ exit' = 1
                      /\ pc' = "exited"
                      /\ UNCHANGED config
    /\ UNCHANGED <<env, edits, runs, cli, config_path, input, event, sent, result,
                   stdout, notifications, log>>
    /\ UNCHANGED <<calls, editor>>

\* main, no command: print the help
PrintHelp ==
    /\ pc = "loaded"
    /\ cli.command = "None"
    /\ stdout' = Append(stdout, Line("Usage: anot [OPTIONS] [COMMAND]"))
    /\ exit' = 0
    /\ pc' = "exited"
    /\ UNCHANGED <<machine, runs, cli, locals, stderr, notifications, log>>
    /\ UNCHANGED <<calls, editor>>

\* main, command Claude: utils::catch_stdin(); read_line(..).unwrap() panics
\* on input that is not UTF-8
ClaudeReadStdin ==
    /\ pc = "loaded"
    /\ cli.command = "Claude"
    /\ \E sin \in StdinContents(AgentATexts) :
          IF sin.utf8
          THEN /\ input' = Some(catch_stdin(sin))
               /\ pc' = "claude_parse"
               /\ UNCHANGED <<stderr, exit>>
          ELSE /\ stderr' = Append(stderr, Line("called Result::unwrap() on an Err value"))
               /\ exit' = 101
               /\ pc' = "exited"
               /\ UNCHANGED input
    /\ UNCHANGED <<machine, runs, cli, config_path, config, event, sent, result,
                   stdout, notifications, log>>
    /\ UNCHANGED <<calls, editor>>

\* the error the platform notification returns when it cannot show
NotifyError == "notification error"

(***************************************************************************)
(* Event Processor, agent A: process_claude_input.                         *)
(***************************************************************************)
\* a parse-failure acknowledgment that leaves the message out
ParseFailureOutput_no_message(text, error) ==
    [HookOutput_default EXCEPT !.suppress_output = Some(FALSE)]

\* the acknowledgment of a parse failure
ParseFailureOutput(text, error) ==
    [HookOutput_default EXCEPT
        !.system_message = Some("Failed to parse input JSON: " \o DebugStr(text)
                                  \o ", error: " \o error),
        !.suppress_output = Some(FALSE)]

\* a success acknowledgment left at the defaults
SuccessOutput_default == HookOutput_default

\* the acknowledgment of a successful dispatch
SuccessOutput ==
    [HookOutput_default EXCEPT !.continue = Some(TRUE), !.suppress_output = Some(TRUE)]

\* a dispatch-failure acknowledgment that does not suppress the output
NotifyFailureOutput_unsuppressed(error) ==
    [HookOutput_default EXCEPT
        !.continue = Some(TRUE),
        !.system_message = Some("Failed to send notification: " \o error)]

\* the acknowledgment of a failed dispatch
NotifyFailureOutput(error) ==
    [HookOutput_default EXCEPT
        !.continue = Some(TRUE), !.suppress_output = Some(TRUE),
        !.system_message = Some("Failed to send notification: " \o error)]

\* a parse step that also shows a notification about the input it could
\* not parse
ClaudeParse_notifies ==
    /\ pc = "claude_parse"
    /\ LET r == from_str("HookInput", input.v)
       IN  IF r.ok
           THEN /\ event' = Some(r.val)
                /\ pc' = "claude_send"
                /\ UNCHANGED <<stdout, log, result, notifications>>
           ELSE /\ stdout' = Append(stdout,
                                Doc(SerializeHookOutput(ParseFailureOutput(input.v, r.err))))
                /\ notifications' = Append(notifications,
                       create_claude_notification("Failed to parse input JSON"))
                /\ log' = Append(log, LogEvent("error", "failed to parse Claude input JSON"))
                /\ result' = Some(Err("Failed to parse input JSON"))
                /\ pc' = "claude_done"
                /\ UNCHANGED event
    /\ UNCHANGED <<machine, runs, cli, config_path, config, input, sent,
                   stderr, exit>>
    /\ UNCHANGED <<calls, editor>>

\* serde_json::from_str::<HookInput>(&input); on an error write the
\* acknowledgment, log, return Err
ClaudeParse ==
    /\ pc = "claude_parse"
    /\ LET r == from_str("HookInput", input.v)
       IN  IF r.ok
           THEN /\ event' = Some(r.val)
                /\ pc' = "claude_send"
                /\ UNCHANGED <<stdout, log, result>>
           ELSE /\ stdout' = Append(stdout,
                                Doc(SerializeHookOutput(ParseFailureOutput(input.v, r.err))))
                /\ log' = Append(log, LogEvent("error", "failed to parse Claude input JSON"))
                /\ result' = Some(Err("Failed to parse input JSON"))
                /\ pc' = "claude_done"
                /\ UNCHANGED event
    /\ UNCHANGED <<machine, runs, cli, config_path, config, input, sent,
                   stderr, notifications, exit>>
    /\ UNCHANGED <<calls, editor>>

\* a send_notification that calls the platform again when the call fails
ClaudeSendNotification_retry ==
    /\ pc = "claude_send"
    /\ \E show_ok \in BOOLEAN :
          LET call == create_claude_notification(claude_notification_body(event.v))
          IN  /\ notifications' = IF show_ok THEN Append(notifications, call)
                                  ELSE Append(Append(notifications, call), call)
              /\ sent' = Some(IF show_ok THEN Ok(Unit) ELSE Err(NotifyError))
    /\ pc' = "claude_ack"
    /\ UNCHANGED <<machine, runs, cli, config_path, config, input, event, result,
                   stdout, stderr, log, exit>>
    /\ UNCHANGED <<calls, editor>>

\* send_notification(&hook_input, config): one call to the platform, which
\* shows the notification or fails
ClaudeSendNotification ==
    /\ pc = "claude_send"
    /\ \E show_ok \in BOOLEAN :
          /\ notifications' = Append(notifications,
                 create_claude_notification(claude_notification_body(event.v)))
          /\ sent' = Some(IF show_ok THEN Ok(Unit) ELSE Err(NotifyError))
    /\ pc' = "claude_ack"
    /\ UNCHANGED <<machine, runs, cli, config_path, config, input, event, result,
                   stdout, stderr, log, exit>>
    /\ UNCHANGED <<calls, editor>>

\* a match whose error arm does not return, so that the acknowledgment is
\* written a second time after it
ClaudeWriteAck_fall_through ==
    /\ pc = "claude_ack"
    /\ IF sent.v.ok
       THEN /\ stdout' = Append(stdout, Doc(SerializeHookOutput(SuccessOutput)))
            /\ result' = Some(Ok(Unit))
            /\ UNCHANGED log
       ELSE /\ stdout' = Append(Append(stdout,
                                   Doc(SerializeHookOutput(NotifyFailureOutput(sent.v.err)))),
                                Doc(SerializeHookOutput(NotifyFailureOutput(sent.v.err))))
            /\ log' = Append(log, LogEvent("error", "failed to send Claude notification"))
            /\ result' = Some(sent.v)
    /\ pc' = "claude_done"
    /\ UNCHANGED <<machine, runs, cli, config_path, config, input, event, sent,
                   stderr, notifications, exit>>
    /\ UNCHANGED <<calls, editor>>

\* the match on what send_notification returned: write the acknowledgment,
\* return Ok or the error
ClaudeWriteAck ==
    /\ pc = "claude_ack"
    /\ IF sent.v.ok
       THEN /\ stdout' = Append(stdout, Doc(SerializeHookOutput(SuccessOutput)))
            /\ result' = Some(Ok(Unit))
            /\ UNCHANGED log
       ELSE /\ stdout' = Append(stdout,
                            Doc(SerializeHookOutput(NotifyFailureOutput(sent.v.err))))
            /\ log' = Append(log, LogEvent("error", "failed to send Claude notification"))
            /\ result' = Some(sent.v)
    /\ pc' = "claude_done"
    /\ UNCHANGED <<machine, runs, cli, config_path, config, input, event, sent,
                   stderr, notifications, exit>>
    /\ UNCHANGED <<calls, editor>>

(***************************************************************************)
(* Event Processor, agent B: process_codex_input.                          *)
(***************************************************************************)
\* main, command Codex: the argument, or standard input when there is none
CodexReadInput ==
    /\ pc = "loaded"
    /\ cli.command = "Codex"
    /\ IF cli.notification.some
       THEN /\ input' = cli.notification
            /\ pc' = "codex_parse"
            /\ UNCHANGED <<stderr, exit>>
       ELSE \E sin \in StdinContents(AgentBTexts) :
               IF sin.utf8
               THEN /\ input' = Some(catch_stdin(sin))
                    /\ pc' = "codex_parse"
                    /\ UNCHANGED <<stderr, exit>>
               ELSE /\ stderr' = Append(stderr,
                                   Line("called Result::unwrap() on an Err value"))
                    /\ exit' = 101
                    /\ pc' = "exited"
                    /\ UNCHANGED input
    /\ UNCHANGED <<machine, runs, cli, config_path, config, event, sent, result,
                   stdout, notifications, log>>
    /\ UNCHANGED <<calls, editor>>

\* a parse step that answers a parse failure with an acknowledgment document
\* on standard output, as the agent-A command does
CodexParse_acknowledges ==
    /\ pc = "codex_parse"
    /\ LET r == from_str("CodexNotificationInput", input.v)
       IN  IF r.ok
           THEN /\ event' = Some(r.val)
                /\ pc' = "codex_send"
                /\ UNCHANGED <<stdout, log, result>>
           ELSE /\ stdout' = Append(stdout,
                                Doc(SerializeHookOutput(ParseFailureOutput(input.v, r.err))))
                /\ log' = Append(log,
                             LogEvent("error", "failed to parse Codex notification JSON"))
                /\ result' = Some(Err("Failed to parse Codex notification JSON: " \o r.err))
                /\ pc' = "codex_done"
                /\ UNCHANGED event
    /\ UNCHANGED <<machine, runs, cli, config_path, config, input, sent,
                   stderr, notifications, exit>>
    /\ UNCHANGED <<calls, editor>>

\* serde_json::from_str::<CodexNotificationInput>(&input); on an error log
\* and return Err
CodexParse ==
    /\ pc = "codex_parse"
    /\ LET r == from_str("CodexNotificationInput", input.v)
       IN  IF r.ok
           THEN /\ event' = Some(r.val)
                /\ pc' = "codex_send"
                /\ UNCHANGED <<log, result>>
           ELSE /\ log' = Append(log,
                             LogEvent("error", "failed to parse Codex notification JSON"))
                /\ result' = Some(Err("Failed to parse Codex notification JSON: " \o r.err))
                /\ pc' = "codex_done"
                /\ UNCHANGED event
    /\ UNCHANGED <<machine, runs, cli, config_path, config, input, sent,
                   stdout, stderr, notifications, exit>>
    /\ UNCHANGED <<calls, editor>>

\* send_notification(&payload, config): one call to the platform for
\* AgentTurnComplete, a warning and no call for Unknown; its result is the
\* result of process_codex_input
CodexSendNotification ==
    /\ pc = "codex_send"
    /\ IF event.v.type = "AgentTurnComplete"
       THEN \E show_ok \in BOOLEAN :
               /\ notifications' = Append(notifications,
                      create_codex_notification(as_str(event.v.type),
                                                codex_notification_body(event.v)))
               /\ sent' = Some(IF show_ok THEN Ok(Unit) ELSE Err(NotifyError))
               /\ UNCHANGED log
       ELSE /\ log' = Append(log, LogEvent("warn", "unknown Codex notification type"))
            /\ sent' = Some(Ok(Unit))
            /\ UNCHANGED notifications
    /\ result' = sent'
    /\ pc' = "codex_done"
    /\ UNCHANGED <<machine, runs, cli, config_path, config, input, event,
                   stdout, stderr, exit>>
    /\ UNCHANGED <<calls, editor>>

\* a main that hands the error of process_*_input on with ?
ReturnFromMain_propagates ==
    /\ pc \in {"claude_done", "codex_done"}
    /\ IF result.v.ok
       THEN /\ exit' = 0
            /\ UNCHANGED stderr
       ELSE /\ exit' = 1
            /\ stderr' = Append(stderr, Line("Error: " \o result.v.err))
    /\ pc' = "exited"
    /\ UNCHANGED <<machine, runs, cli, locals, stdout, notifications, log>>
    /\ UNCHANGED <<calls, editor>>

\* main: log the error process_*_input returned, if any, and return Ok(())
ReturnFromMain ==
    /\ pc \in {"claude_done", "codex_done"}
    /\ log' = IF result.v.ok THEN log
              ELSE Append(log, LogEvent("error",
                       IF pc = "claude_done" THEN "failed to process Claude input"
                       ELSE "failed to process Codex input"))
    /\ exit' = 0
    /\ pc' = "exited"
    /\ UNCHANGED <<machine, runs, cli, locals, stdout, stderr, notifications>>
    /\ UNCHANGED <<calls, editor>>

Next ==
    \/ EditSettingsFile
    \/ Start
    \/ ResolveConfigPath
    \/ ResetCommand
    \/ LoadSettings
    \/ PrintHelp
    \/ ClaudeReadStdin
    \/ ClaudeParse
    \/ ClaudeSendNotification
    \/ ClaudeWriteAck
    \/ CodexReadInput
    \/ CodexParse
    \/ CodexSendNotification
    \/ ReturnFromMain

Spec == Init /\ [][Next]_vars

(***************************************************************************)
(* The Settings Store on its own: initialize_configuration and             *)
(* reset_configuration called, in any order, on settings files of any      *)
(* content.                                                                *)
(***************************************************************************)
\* number of calls to the Settings Store in one behaviour
MaxCalls == 3

\* what a settings file may hold when the program first meets it
SettingsTexts == TextsOf(SettingsDocs) \cup NotJsonTexts

SettingsInit ==
    /\ env = "config_dir"
    /\ \E p \in RunPaths(env), f \in {Absent} \cup {File(t) : t \in SettingsTexts} :
          fs = [q \in SettingsPaths |-> IF q = p THEN f ELSE Absent]
    /\ edits = 0
    /\ NoRun
    /\ calls = <<>>
    /\ NoEditor

\* a call of the Settings Store: how the file system answered it, what the
\* file at the path held before it, what it returned, what the file holds
\* after it
StoreCall(op, path, io, before, res, after) ==
    [op |-> op, path |-> path, io |-> io, before |-> before, result |-> res,
     after |-> after]

\* initialize_configuration(path)
CallInitializeConfiguration ==
    /\ Len(calls) < MaxCalls
    /\ \E path \in RunPaths(env) :
          \E io \in InitializeOutcomes(fs, path) :
             LET r == initialize_configuration(fs, path, io)
             IN  /\ fs' = r.fs
                 /\ calls' = Append(calls, StoreCall("initialize_configuration", path, io,
                                                     fs[path], r.result, r.fs[path]))
    /\ UNCHANGED <<env, edits, run, editor>>

\* reset_configuration(path)
CallResetConfiguration ==
    /\ Len(calls) < MaxCalls
    /\ \E path \in RunPaths(env) :
          \E io \in ResetOutcomes(fs, path) :
             LET r == reset_configuration(fs, path, io)
             IN  /\ fs' = r.fs
                 /\ calls' = Append(calls, StoreCall("reset_configuration", path, io,
                                                     fs[path], r.result, r.fs[path]))
    /\ UNCHANGED <<env, edits, run, editor>>

SettingsNext ==
    \/ CallInitializeConfiguration
    \/ CallResetConfiguration

SettingsSpec == SettingsInit /\ [][SettingsNext]_vars

(***************************************************************************)
(* Config Editor: the documents of the agents' configuration files.  A     *)
(* document is kept as the parser reads it: an object (a TOML table) is a  *)
(* map from its keys to their values, a list the sequence of its elements. *)
(***************************************************************************)
JMap(f)  == [t |-> "map", f |-> f]
JList(l) == [t |-> "list", l |-> l]

\* an object whose members stand in the document in the order of keys
JMapIn(keys, f) == [t |-> "map", f |-> f, order |-> keys]

\* a file content kept as its text: the empty or blank text, or a text that
\* is no document of the format
RawText(s) == [t |-> "text", s |-> s]

\* a file content that a write refused after a part of the text left, when
\* the part ends inside the first token of the text of content: it is no
\* document of the format (a part that ends where a key ends is a document,
\* see LeftBy)
WrittenPart(content) == [t |-> "part", of |-> content]

EmptyMap == [k \in {} |-> JNull]

\* the map m without the key k
Without(m, k) == [x \in (DOMAIN m) \ {k} |-> m[x]]

Range(s) == {s[i] : i \in 1..Len(s)}

\* the order of the members of an object that names none: the fields of a
\* struct as they are declared, the event kinds as strum lists them
DeclaredOrder ==
    <<"type", "command", "timeout", "matcher", "hooks">> \o HookEventNames

RECURSIVE SetToSeq(_)
SetToSeq(S) ==
    IF S = {} THEN <<>>
    ELSE LET x == CHOOSE x \in S : TRUE IN <<x>> \o SetToSeq(S \ {x})

\* the keys of an object in the order of the document
MembersOf(v) ==
    IF "order" \in DOMAIN v THEN v.order
    ELSE SelectSeq(DeclaredOrder, LAMBDA k : k \in DOMAIN v.f)
           \o SetToSeq(DOMAIN v.f \ Range(DeclaredOrder))

\* the first error of a sequence of results, or Ok of the sequence
FirstError(rs) ==
    IF \E i \in 1..Len(rs) : ~rs[i].ok
    THEN rs[CHOOSE i \in 1..Len(rs) : ~rs[i].ok /\ \A j \in 1..(i - 1) : rs[j].ok]
    ELSE Ok(rs)

(***************************************************************************)
(* Config Editor, agent A: the hooks of a Claude Code settings file.       *)
(***************************************************************************)
\* agent_command: "<current_exe>" claude
agent_command(current_exe) == "\"" \o current_exe \o "\" claude"

\* where the program may be installed: under its own name, or renamed
ExePaths == {"/usr/local/bin/anot", "/opt/tools/notifier"}

\* the handler commands of the model, each with the patterns of
\* is_our_notification_action it contains (a string is not searched here:
\* the table states str::contains for these strings)
CommandSamples ==
    { [s |-> agent_command("/usr/local/bin/anot"), has |-> {"anot", "claude"}],
      [s |-> agent_command("/opt/tools/notifier"), has |-> {"claude"}],
      [s |-> agent_command("/old/bin/anot"), has |-> {"anot", "claude"}],
      [s |-> "/usr/bin/say done", has |-> {}],
      [s |-> "another-claude-hook", has |-> {"anot", "claude"}] }

\* s.contains(pat)
contains(s, pat) == \E c \in CommandSamples : c.s = s /\ pat \in c.has

\* ActionConfiguration
ActionConfiguration(command, timeout) ==
    [type |-> "command", command |-> command, timeout |-> timeout]

\* EventHookConfiguration
EventHookConfiguration(matcher, hooks) == [matcher |-> matcher, hooks |-> hooks]

\* ClaudeConfiguration: hooks maps an event kind to its matcher groups, other
\* holds every other top-level key (#[serde(flatten)])
ClaudeConfiguration(hooks, other) == [hooks |-> hooks, other |-> other]

ClaudeConfiguration_default == ClaudeConfiguration(EmptyMap, EmptyMap)

\* Deserialize for HookType: the one variant, from its name as a string or
\* as the one key of an object whose value is null; an object with no
\* member, what follows the first member, and every value that is neither
\* string nor object are "expected value", the error of a text that is not
\* JSON
DeserHookType(v) ==
    LET variant(name) ==
            IF name = "command" THEN Ok(name)
            ELSE Err("unknown variant '" \o name \o "'")
    IN  CASE v.t = "str" -> variant(v.s)
          [] v.t = "map" ->
               LET keys == MembersOf(v)
               IN  IF Len(keys) = 0 THEN Err("syntax error")
                   ELSE IF ~variant(keys[1]).ok THEN variant(keys[1])
                   ELSE IF v.f[keys[1]].t # "null" THEN Err("invalid type")
                   ELSE IF Len(keys) > 1 THEN Err("syntax error")
                   ELSE variant(keys[1])
          [] OTHER -> Err("syntax error")

\* Deserialize for Option<u64>
DeserTimeout(v) ==
    IF v.t = "null" THEN Ok(None)
    ELSE IF v.t # "num" THEN Err("invalid type")
    ELSE IF v.n < 0 THEN Err("invalid value")
    ELSE Ok(Some(v.n))

\* Deserialize for String
DeserString(v) == IF v.t = "str" THEN Ok(v.s) ELSE Err("invalid type")

\* a member of an ActionConfiguration: a key that names no field is ignored
DeserActionMember(k, v) ==
    CASE k = "type"    -> DeserHookType(v)
      [] k = "command" -> DeserString(v)
      [] k = "timeout" -> DeserTimeout(v)
      [] OTHER         -> Ok(v)

\* Deserialize for ActionConfiguration.  From an object (visit_map): the
\* members are read in the order of the document and the first that does not
\* fit is the error; after the last, type and command are required, timeout
\* may be absent.  From an array (visit_seq): the three fields in their
\* order, none left out.
DeserAction(v) ==
    IF v.t = "list"
    THEN IF Len(v.l) = 0 THEN Err("invalid length")
         ELSE IF ~DeserHookType(v.l[1]).ok THEN DeserHookType(v.l[1])
         ELSE IF Len(v.l) = 1 THEN Err("invalid length")
         ELSE IF ~DeserString(v.l[2]).ok THEN DeserString(v.l[2])
         ELSE IF Len(v.l) = 2 THEN Err("invalid length")
         ELSE IF ~DeserTimeout(v.l[3]).ok THEN DeserTimeout(v.l[3])
         ELSE IF Len(v.l) > 3 THEN Err("trailing characters")
         ELSE Ok(ActionConfiguration(v.l[2].s, DeserTimeout(v.l[3]).val))
    ELSE IF v.t # "map" THEN Err("invalid type")
    ELSE LET keys    == MembersOf(v)
             members == FirstError([i \in 1..Len(keys) |->
                                       DeserActionMember(keys[i], v.f[keys[i]])])
         IN  IF ~members.ok THEN members
             ELSE IF "type" \notin DOMAIN v.f THEN Err("missing field 'type'")
             ELSE IF "command" \notin DOMAIN v.f THEN Err("missing field 'command'")
             ELSE Ok(ActionConfiguration(v.f["command"].s,
                         IF "timeout" \in DOMAIN v.f THEN DeserTimeout(v.f["timeout"]).val
                         ELSE None))

\* Deserialize for a Vec, given the result of each element: the first error,
\* or the elements
Collect(rs) ==
    IF \E i \in 1..Len(rs) : ~rs[i].ok
    THEN rs[CHOOSE i \in 1..Len(rs) : ~rs[i].ok /\ \A j \in 1..(i - 1) : rs[j].ok]
    ELSE Ok([i \in 1..Len(rs) |-> rs[i].val])

\* Deserialize for Vec<ActionConfiguration>
DeserActions(v) ==
    IF v.t # "list" THEN Err("invalid type")
    ELSE Collect([i \in 1..Len(v.l) |-> DeserAction(v.l[i])])

\* a member of an EventHookConfiguration
DeserEventHookMember(k, v) ==
    CASE k = "matcher" -> DeserString(v)
      [] k = "hooks"   -> DeserActions(v)
      [] OTHER         -> Ok(v)

\* Deserialize for EventHookConfiguration: from an object, the members in the
\* order of the document, then matcher and hooks are required; from an
\* array, the two in their order
DeserEventHook(v) ==
    IF v.t = "list"
    THEN IF Len(v.l) = 0 THEN Err("invalid length")
         ELSE IF v.l[1].t # "str" THEN Err("invalid type")
         ELSE IF Len(v.l) = 1 THEN Err("invalid length")
         ELSE LET r == DeserActions(v.l[2])
              IN  IF ~r.ok THEN r
                  ELSE IF Len(v.l) > 2 THEN Err("trailing characters")
                  ELSE Ok(EventHookConfiguration(v.l[1].s, r.val))
    ELSE IF v.t # "map" THEN Err("invalid type")
    ELSE LET keys    == MembersOf(v)
             members == FirstError([i \in 1..Len(keys) |->
                                       DeserEventHookMember(keys[i], v.f[keys[i]])])
         IN  IF ~members.ok THEN members
             ELSE IF "matcher" \notin DOMAIN v.f THEN Err("missing field 'matcher'")
             ELSE IF "hooks" \notin DOMAIN v.f THEN Err("missing field 'hooks'")
             ELSE Ok(EventHookConfiguration(v.f["matcher"].s,
                                            DeserActions(v.f["hooks"]).val))

\* Deserialize for Vec<EventHookConfiguration>
DeserEventHooks(v) ==
    IF v.t # "list" THEN Err("invalid type")
    ELSE Collect([i \in 1..Len(v.l) |-> DeserEventHook(v.l[i])])

\* an entry of the hooks map: the key names an event kind, the value is its
\* matcher groups
DeserHooksEntry(k, v) ==
    IF k \notin NineKinds THEN Err("unknown variant") ELSE DeserEventHooks(v)

\* Deserialize for HashMap<HookEventName, Vec<EventHookConfiguration>>: the
\* entries in the order of the document, up to the first that fails
DeserHooks(v) ==
    IF v.t # "map" THEN Err("invalid type")
    ELSE LET keys    == MembersOf(v)
             entries == FirstError([i \in 1..Len(keys) |->
                                       DeserHooksEntry(keys[i], v.f[keys[i]])])
         IN  IF ~entries.ok THEN entries
             ELSE Ok([k \in DOMAIN v.f |-> DeserEventHooks(v.f[k]).val])

\* Deserialize for ClaudeConfiguration: hooks defaults to the empty map, the
\* other keys are collected as they are
DeserClaudeConfiguration(v) ==
    IF v.t # "map" THEN Err("invalid type")
    ELSE LET hooks == IF "hooks" \in DOMAIN v.f THEN DeserHooks(v.f["hooks"]) ELSE Ok(EmptyMap)
         IN  IF hooks.ok THEN Ok(ClaudeConfiguration(hooks.val, Without(v.f, "hooks")))
             ELSE hooks

\* Serialize for ActionConfiguration: a timeout of None is written as null
SerAction(a) ==
    JMap([type    |-> JStr(a.type),
          command |-> JStr(a.command),
          timeout |-> IF a.timeout.some THEN JNum(a.timeout.v) ELSE JNull])

SerEventHook(g) ==
    JMap([matcher |-> JStr(g.matcher), hooks |-> JList([i \in 1..Len(g.hooks) |-> SerAction(g.hooks[i])])])

\* Serialize for HashMap<HookEventName, Vec<EventHookConfiguration>>
SerHooks(hooks) ==
    JMap([k \in DOMAIN hooks |->
             JList([i \in 1..Len(hooks[k]) |-> SerEventHook(hooks[k][i])])])

\* a serialization that writes the hooks and leaves the other keys out
SerClaudeConfiguration_hooks_only(c) ==
    JMap("hooks" :> SerHooks(c.hooks))

\* Serialize for ClaudeConfiguration: the hooks member, then the other keys
SerClaudeConfiguration(c) ==
    JMap(("hooks" :> SerHooks(c.hooks)) @@ c.other)

\* anyhow::Error of the editor: Error::msg(msg).  content is the file text
\* that ends the message, when the message quotes one.
Error_msg(msg) == [msg |-> msg, content |-> None]

\* format!("{}: {}. Content: {}", what, e, config_data), the file text kept
\* as the content the file holds
ParseError(what, e, config_data) ==
    [msg |-> what \o ": " \o e \o ". Content: ", content |-> Some(config_data)]

\* the line main ends with when it returns the error: "Error: " and the
\* message
ErrorLine(error) ==
    IF error.content.some
    THEN [kind |-> "text", s |-> "Error: " \o error.msg, content |-> error.content.v]
    ELSE Line("Error: " \o error.msg)

\* read_config on the content of an existing file
claude_read_config(content) ==
    IF content.t \in {"text", "part"}
    THEN Err(ParseError("Failed to parse the configuration file", "syntax error", content))
    ELSE LET r == DeserClaudeConfiguration(content)
         IN  IF r.ok THEN r
             ELSE Err(ParseError("Failed to parse the configuration file", r.err, content))

is_our_notification_action(action) ==
    contains(action.command, "anot") /\ contains(action.command, "claude")

\* whether a matcher group holds an action of this tool
has_our_action(hook_config) ==
    \E i \in 1..Len(hook_config.hooks) : is_our_notification_action(hook_config.hooks[i])

has_our_notification_hook(event_hooks) ==
    \E i \in 1..Len(event_hooks) : has_our_action(event_hooks[i])

\* the kind kinds that are shown as configured (a Vec in no fixed order)
get_currently_configured_hooks(cfg) ==
    {k \in DOMAIN cfg.hooks : has_our_notification_hook(cfg.hooks[k])}

create_our_hook_config(command) ==
    EventHookConfiguration("", <<ActionConfiguration(command, Some(10))>>)

remove_our_notification_hooks(cfg) ==
    [cfg EXCEPT !.hooks =
        [k \in DOMAIN cfg.hooks |->
            SelectSeq(cfg.hooks[k], LAMBDA hook_config : ~has_our_action(hook_config))]]

\* for event in selected_hooks: hooks.entry(event).or_insert_with(Vec::new).push(..)
RECURSIVE add_hooks_to_selected_events(_, _, _)
add_hooks_to_selected_events(cfg, selected, our_hook_config) ==
    IF selected = <<>> THEN cfg
    ELSE LET kind == Head(selected)
             entry == IF kind \in DOMAIN cfg.hooks THEN cfg.hooks[kind] ELSE <<>>
         IN  add_hooks_to_selected_events(
                 [cfg EXCEPT !.hooks =
                     (kind :> Append(entry, our_hook_config)) @@ cfg.hooks],
                 Tail(selected), our_hook_config)

cleanup_empty_hook_entries(cfg) ==
    [cfg EXCEPT !.hooks =
        [k \in {e \in DOMAIN cfg.hooks : cfg.hooks[e] # <<>>} |-> cfg.hooks[k]]]

with_selected_notification_hooks(cfg, command, selected) ==
    cleanup_empty_hook_entries(
        add_hooks_to_selected_events(remove_our_notification_hooks(cfg),
                                     selected, create_our_hook_config(command)))

(***************************************************************************)
(* Config Editor, agent B: the notify command of a Codex config.toml.      *)
(***************************************************************************)
\* CodexConfiguration: notify, and every other top-level key (#[serde(flatten)])
CodexConfiguration(notify, other) == [notify |-> notify, other |-> other]

CodexConfiguration_default == CodexConfiguration(None, EmptyMap)

\* notify_command: [<current_exe>, "codex"]
notify_command(current_exe) == <<current_exe, "codex">>

set_notify(cfg, cmd) == [cfg EXCEPT !.notify = Some(cmd)]

clear_notify(cfg) == [cfg EXCEPT !.notify = None]

\* Deserialize for CodexConfiguration: notify, when present, is an array of
\* strings; the other keys are collected as they are
DeserCodexConfiguration(v) ==
    IF "notify" \in DOMAIN v.f
    THEN LET n == v.f["notify"]
         IN  IF n.t # "list" \/ \E i \in 1..Len(n.l) : n.l[i].t # "str"
             THEN Err("invalid type")
             ELSE Ok(CodexConfiguration(Some([i \in 1..Len(n.l) |-> n.l[i].s]),
                                        Without(v.f, "notify")))
    ELSE Ok(CodexConfiguration(None, v.f))

\* Serialize for Vec<String>
SerStrings(l) == JList([i \in 1..Len(l) |-> JStr(l[i])])

\* a serialization that writes notify alone
SerCodexConfiguration_notify_only(c) ==
    IF c.notify.some THEN JMap("notify" :> SerStrings(c.notify.v))
    ELSE RawText("")

\* toml::to_string_pretty for CodexConfiguration: notify when it is Some, then
\* the other keys; a configuration without any key is the empty text
SerCodexConfiguration(c) ==
    LET table == (IF c.notify.some THEN "notify" :> SerStrings(c.notify.v)
                  ELSE EmptyMap) @@ c.other
    IN  IF DOMAIN table = {} THEN RawText("") ELSE JMap(table)

\* read_config on the content of an existing file: a blank file is the
\* default configuration
codex_read_config(content) ==
    IF content.t \in {"text", "part"}
    THEN IF content.t = "text" /\ IsBlank(content.s) THEN Ok(CodexConfiguration_default)
         ELSE Err(ParseError("Failed to parse the configuration file as TOML",
                             "syntax error", content))
    ELSE LET r == DeserCodexConfiguration(content)
         IN  IF r.ok THEN r
             ELSE Err(ParseError("Failed to parse the configuration file as TOML",
                                 r.err, content))

(***************************************************************************)
(* Config Editor: the files the flows meet, and the answers to the prompts.*)
(***************************************************************************)
\* number of editor flows in one behaviour
MaxFlows == 2

\* std::env::var("HOME"), which expand_tilde reads itself: the variable as
\* the machine sets it, None when it does not
HomeVar(e) ==
    CASE e = "config_dir" -> Some("/home/u")
      [] e = "home_empty" -> Some("")
      [] OTHER            -> None

\* the paths that start with ~/, each with what follows the ~/
TildePaths ==
    [p \in {"~/.claude/settings.json", "~/.codex/config.toml", "~/other/file.json",
            "~/other/config.toml"} |->
        CASE p = "~/.claude/settings.json" -> ".claude/settings.json"
          [] p = "~/.codex/config.toml"    -> ".codex/config.toml"
          [] p = "~/other/file.json"       -> "other/file.json"
          [] p = "~/other/config.toml"     -> "other/config.toml"]

\* str::strip_prefix("~/")
strip_prefix_tilde(path) ==
    IF path \in DOMAIN TildePaths THEN Some(TildePaths[path]) ELSE None

\* expand_tilde: when HOME is set, a path with a leading ~/ becomes
\* PathBuf::from(home).join(rest), which is the rest alone for an empty
\* HOME; any other path, and every path when HOME is not set, is left as it
\* is
expand_tilde(home, path) ==
    LET rest == strip_prefix_tilde(path)
    IN  IF rest.some /\ home.some
        THEN IF home.v = "" THEN rest.v ELSE home.v \o "/" \o rest.v
        ELSE path

\* the path the user types at the custom path prompt, or gives as argument
ClaudeCustomPath == "~/other/file.json"
CodexCustomPath  == "~/other/config.toml"

\* ClaudeCodePathSelection, with the path of each selection
ClaudeCodePathSelections ==
    [UserSettings         |-> "~/.claude/settings.json",
     ProjectSettings      |-> ".claude/settings.json",
     LocalProjectSettings |-> ".claude/settings.local.json",
     CustomPath           |-> ClaudeCustomPath]

\* CodexConfigPathSelection, with the path of each selection (CODEX_HOME is
\* not set, so that $CODEX_HOME/config.toml is ~/.codex/config.toml)
CodexConfigPathSelections ==
    [CodexHomeConfig |-> "~/.codex/config.toml",
     DotCodexConfig  |-> "~/.codex/config.toml",
     CustomPath      |-> CodexCustomPath]

\* the paths a flow may work on
ClaudePaths(e) ==
    {expand_tilde(HomeVar(e), p) :
        p \in {ClaudeCodePathSelections[s] : s \in DOMAIN ClaudeCodePathSelections}}
CodexPaths(e) ==
    {expand_tilde(HomeVar(e), p) :
        p \in {CodexConfigPathSelections[s] : s \in DOMAIN CodexConfigPathSelections}}

\* a handler action as another tool or the user wrote it
RawAction(command) == JMap([type |-> JStr("command"), command |-> JStr(command)])
RawActionWithTimeout(command, timeout) ==
    JMap([type |-> JStr("command"), command |-> JStr(command), timeout |-> JNum(timeout)])
RawGroup(matcher, actions) == JMap([matcher |-> JStr(matcher), hooks |-> JList(actions)])

\* top-level keys that are not this tool's
ClaudeOtherKeys ==
    ("model" :> JStr("opus"))
      @@ ("permissions" :> JMap("allow" :> JList(<<JStr("Bash")>>)))

ThirdPartyCommand == "/usr/bin/say done"

\* what a Claude Code settings file may hold when the editor first meets it
ClaudeSettingsContents(current_exe) ==
    { \* no hooks: an empty object, other keys only
      JMap(EmptyMap),
      JMap(ClaudeOtherKeys),
      \* a handler of another tool, in a group of its own
      JMap(ClaudeOtherKeys
             @@ ("hooks" :> JMap("Stop" :>
                    JList(<<RawGroup("", <<RawAction(ThirdPartyCommand)>>)>>)))),
      \* a handler of another tool in the group of this tool's handler
      JMap("hooks" :> JMap("Stop" :>
              JList(<<RawGroup("", << RawActionWithTimeout(agent_command("/old/bin/anot"), 10),
                                      RawAction(ThirdPartyCommand) >>)>>))),
      \* what an earlier run of this program wrote
      JMap(ClaudeOtherKeys
             @@ ("hooks" :> JMap(
                    ("Stop" :> JList(<<RawGroup("", <<RawActionWithTimeout(
                                           agent_command(current_exe), 10)>>)>>))
                    @@ ("PreToolUse" :> JList(<<RawGroup("", <<RawActionWithTimeout(
                                           agent_command(current_exe), 10)>>)>>))))),
      \* a handler of another tool whose command holds both patterns
      JMap("hooks" :> JMap("Notification" :>
              JList(<< RawGroup("", <<RawActionWithTimeout("another-claude-hook", 5)>>),
                       RawGroup("", <<RawAction(ThirdPartyCommand)>>) >>))),
      \* a group and its action written as arrays of their fields
      JMap("hooks" :> JMap("Stop" :>
              JList(<<JList(<<JStr(""),
                              JList(<<JList(<<JStr("command"), JStr(ThirdPartyCommand),
                                              JNum(10)>>)>>)>>)>>))),
      \* files read_config refuses: not JSON, a kind that is no list before a
      \* key that is no kind, a group without matcher
      RawText("not json"),
      JMap("hooks" :> JMapIn(<<"Stop", "Bogus">>,
                             ("Stop" :> JNum(5)) @@ ("Bogus" :> JList(<<>>)))),
      JMap("hooks" :> JMap("Stop" :>
              JList(<<JMap("hooks" :> JList(<<RawAction(ThirdPartyCommand)>>))>>))) }

CodexOtherKeys ==
    ("model" :> JStr("gpt-5"))
      @@ ("tui" :> JMap("notifications" :> JBool(TRUE)))

\* what a Codex config.toml may hold when the editor first meets it
CodexConfigContents(current_exe) ==
    { RawText(""), RawText(" "),
      JMap(CodexOtherKeys),
      JMap(("notify" :> JList(<<JStr("notify-send"), JStr("Codex")>>)) @@ CodexOtherKeys),
      JMap("notify" :> JList(<<JStr("notify-send")>>)),
      JMap(("notify" :> SerStrings(notify_command(current_exe))) @@ CodexOtherKeys),
      JMap(("notify" :> JList(<<>>)) @@ CodexOtherKeys),
      \* files read_config refuses: not TOML, a notify that is no array
      RawText("not toml"),
      JMap(("notify" :> JStr("notify-send")) @@ CodexOtherKeys) }

\* the event kinds the user selects among
SampleKinds == {"Notification", "Stop"}

\* the selected options as MultiSelect returns them: in the order of the list
SelectionOf(kinds) == SelectSeq(HookEventNames, LAMBDA k : k \in kinds)

\* how a prompt ends when it is not answered
InquireErrors == {"OperationCanceled", "OperationInterrupted", "NotTTY"}

\* handle_inquire_error: a cancelled and an interrupted prompt have a message
\* of their own, any other error is the context and the text of the error
handle_inquire_error(err, context) ==
    CASE err = "OperationCanceled"    -> Error_msg("Operation cancelled by user")
      [] err = "OperationInterrupted" -> Error_msg("Operation interrupted by user")
      [] OTHER -> Error_msg(context \o ": The input device is not a TTY")

\* the errors of a prompt that is not answered
PromptErrors(context) == {handle_inquire_error(e, context) : e \in InquireErrors}

\* the errors of a prompt that the user cancelled or interrupted
CancelErrors == {Error_msg("Operation cancelled by user"),
                 Error_msg("Operation interrupted by user")}

(***************************************************************************)
(* Config Editor: the flows initialize_claude_configuration and            *)
(* initialize_codex_configuration, one action per prompt with the code     *)
(* that follows it.  The serializers' own failures, which these            *)
(* configurations do not meet, are left out; the flows' tracing events are *)
(* below the level the log is written at.                                  *)
(***************************************************************************)
\* the characters of the printed lines that are not ASCII, each written as
\* Rust writes it in a string literal
Clipboard == "\\u{1F4CB}"
Bullet    == "\\u{2022}"
CheckMark == "\\u{2705}"
Folder    == "\\u{1F4C1}"
Info      == "\\u{2139}\\u{FE0F}"
Broom     == "\\u{1F9F9}"

\* the orders a HashMap may give its keys in
Orders(keys) ==
    {q \in [1..Cardinality(keys) -> keys] :
        \A i, j \in 1..Cardinality(keys) : q[i] = q[j] => i = j}

\* agent A, initialize: the hooks of the file, one line for each kind in the
\* order the map gives them, then an empty line
CurrentHookLines(hooks, order) ==
    <<Line(Clipboard \o " Current hook configuration:")>>
      \o [i \in 1..Len(order) |->
            Line("  " \o Bullet \o " " \o order[i] \o ": "
                   \o ToString(Len(hooks[order[i]])) \o " hook(s) configured")]
      \o <<Line("")>>

\* format!("{:?}") of a Vec<String>
DebugStrings(strings) ==
    "[" \o JoinWith([i \in 1..Len(strings) |-> DebugStr(strings[i])], ", ") \o "]"

\* agent B, initialize: the notify of the file, then an empty line
CurrentNotifyLines(current) ==
    << Line(Clipboard \o " Current notify configuration:"),
       Line("  " \o Bullet \o " notify = " \o DebugStrings(current)),
       Line("") >>

\* the lines after write_config: what was done, and the file it was done to
WrittenLines(done, path) ==
    <<Line(done), Line(Folder \o " Configuration written to: " \o path)>>

\* what an action of the flows leaves alone of the run: all but standard
\* output
run_but_stdout == <<runs, pc, cli, locals, stderr, notifications, log, exit>>

\* a flow that returned Ok(()): the file it worked on, the answers it got,
\* the configuration files before and after it
FlowRecord(agent, path, selected, answer, before, after) ==
    [agent |-> agent, path |-> path, selected |-> selected, choice |-> answer,
     before |-> before, after |-> after]

\* no flow has started
NoFlow ==
    /\ flows = 0 /\ step = "idle"
    /\ expanded_path = None /\ agent_config = None
    /\ selected_hooks = None /\ choice = None /\ flow_result = None
    /\ started = <<>> /\ writes = <<>> /\ history = <<>>

\* the flows start on a machine where expand_tilde puts the home directory
\* before the rest of the path, or on one where it leaves the rest alone:
\* they do not call get_config_path
EditorInit ==
    /\ env \in {"config_dir", "home_empty"}
    /\ fs = [p \in SettingsPaths |-> Absent]
    /\ edits = 0
    /\ NoRun
    /\ calls = <<>>
    /\ exe \in ExePaths
    /\ \/ /\ init = [agent |-> "claude", path |-> None]
          /\ \E f \in {Absent} \cup {File(c) : c \in ClaudeSettingsContents(exe)} :
                files = [p \in ClaudePaths(env) |->
                           IF p = expand_tilde(HomeVar(env), "~/.claude/settings.json")
                           THEN f ELSE Absent]
       \/ /\ init = [agent |-> "codex", path |-> None]
          /\ \E f \in {Absent} \cup {File(c) : c \in CodexConfigContents(exe)} :
                files = [p \in CodexPaths(env) |->
                           IF p = expand_tilde(HomeVar(env), "~/.codex/config.toml")
                           THEN f ELSE Absent]
    /\ NoFlow

\* main, command Init: the flow of the agent starts, with or without a path
\* argument
StartFlow ==
    /\ step \in {"idle", "done"}
    /\ flows < MaxFlows
    /\ flows' = flows + 1
    /\ \E p \in {None, Some(IF init.agent = "claude" THEN ClaudeCustomPath
                            ELSE CodexCustomPath)} :
          init' = [init EXCEPT !.path = p]
    /\ step' = "choose_path"
    /\ expanded_path' = None /\ agent_config' = None
    /\ selected_hooks' = None /\ choice' = None /\ flow_result' = None
    /\ started' = files
    /\ writes' = <<>>
    /\ stdout' = <<>>
    /\ UNCHANGED <<machine, run_but_stdout, calls, exe, files, history>>

\* choose_config_path and expand_tilde: the argument when there is one, else
\* the answer to the Select prompt (and to the Text prompt of a custom
\* path); a prompt that is not answered ends the flow
ChoosePath(selections, context) ==
    /\ step = "choose_path"
    /\ \E answer \in (IF init.path.some THEN {Ok(init.path.v)}
                      ELSE {Ok(selections[s]) : s \in DOMAIN selections}
                             \cup {Err(e) : e \in PromptErrors(context)}
                             \cup {Err(e) : e \in PromptErrors(
                                                     "Failed to prompt for custom path")}) :
          IF answer.ok
          THEN /\ expanded_path' = Some(expand_tilde(HomeVar(env), answer.val))
               /\ step' = "ensure_path"
               /\ UNCHANGED flow_result
          ELSE /\ flow_result' = Some(answer)
               /\ step' = "done"
               /\ UNCHANGED expanded_path
    /\ UNCHANGED <<machine, run, calls, exe, files, flows, init, agent_config,
                   selected_hooks, choice, started, writes, history>>

ClaudeChoosePath ==
    /\ init.agent = "claude"
    /\ ChoosePath(ClaudeCodePathSelections, "Failed to prompt for Claude configuration path")

CodexChoosePath ==
    /\ init.agent = "codex"
    /\ ChoosePath(CodexConfigPathSelections, "Failed to prompt for Codex configuration path")

\* how the file operations of ensure_path_exists end: all done, or
\* create_dir_all refused, or fs::write refused when it opens the file or,
\* for a content that is not empty, when it writes to it: before the first
\* byte ("write") or after a part of the text ("short_write")
EnsureOutcomes(empty) ==
    {"ok", "create_dir_all", "open"}
      \cup (IF empty = RawText("") THEN {} ELSE {"write", "short_write"})

\* the keys of a table in the order toml::to_string_pretty writes them:
\* notify, the first field of CodexConfiguration, then the other keys, the
\* values before the tables (the sample documents hold one key of each
\* kind at most, and no table within a table)
TomlOrder(f) ==
    (IF "notify" \in DOMAIN f THEN <<"notify">> ELSE <<>>)
      \o SetToSeq({k \in DOMAIN f \ {"notify"} : f[k].t # "map"})
      \o SetToSeq({k \in DOMAIN f \ {"notify"} : f[k].t = "map"})

\* the documents that are a prefix of the text toml::to_string_pretty writes
\* for the table f: the text has one key on a line (an array on the lines
\* from its key to its closing bracket), so that the text up to the end of
\* a key is the document of the keys written so far, the last of them a
\* table with the members written so far, none after its header alone.  The
\* text without its last line terminator is the document of f itself.
TomlPrefixDocs(f) ==
    LET order == TomlOrder(f)
        upto(g, n) == LET o == TomlOrder(g) IN [k \in {o[j] : j \in 1..n} |-> g[k]]
    IN  UNION { IF f[order[i]].t = "map"
                THEN {JMap(upto(f, i - 1)
                             @@ (order[i] :> JMap(upto(f[order[i]].f, m)))) :
                         m \in 0..Len(TomlOrder(f[order[i]].f))}
                ELSE {JMap(upto(f, i))}
              : i \in 1..Len(order) }

\* what a write of content that is refused leaves in the file it has
\* emptied: nothing ("write"), or a proper prefix of the text
\* ("short_write").  A prefix of a JSON text is no document, and the model
\* takes the first bytes: every text that serde_json::to_string_pretty
\* writes for a ClaudeConfiguration starts with its first member, hooks.  A
\* prefix of a TOML text is no document when it ends inside a key or a
\* value, of which the model takes the first bytes of a text that starts
\* with notify and a part cut inside a token of any other; it is a document
\* when it ends where a key ends.
LeftBy(content, io) ==
    IF io = "write" THEN {RawText("")}
    ELSE IF init.agent = "claude" THEN {RawText("{\n  \"hooks\"")}
    ELSE IF content.t # "map" THEN {WrittenPart(content)}
    ELSE {IF "notify" \in DOMAIN content.f THEN RawText("notify = [")
          ELSE WrittenPart(content)}
           \cup TomlPrefixDocs(content.f)

\* ensure_path_exists, the test path.exists(): a file that is there is
\* read, for a missing one the user is asked
EnsurePathExists ==
    /\ step = "ensure_path"
    /\ step' = IF files[expanded_path.v].exists THEN "read" ELSE "confirm"
    /\ UNCHANGED <<machine, run, calls, exe, files, flows, init, expanded_path,
                   agent_config, selected_hooks, choice, flow_result, started, writes,
                   history>>

\* while the Confirm prompt waits, another process creates the file
OtherProcessWrites ==
    /\ step = "confirm"
    /\ ~files[expanded_path.v].exists
    /\ files' = [files EXCEPT ![expanded_path.v] =
                    File(JMap(IF init.agent = "claude" THEN ClaudeOtherKeys
                              ELSE CodexOtherKeys))]
    /\ UNCHANGED <<machine, run, calls, exe, flows, step, init, expanded_path,
                   agent_config, selected_hooks, choice, flow_result, started, writes,
                   history>>

\* ensure_path_exists, from the Confirm prompt on: when the user confirms,
\* the empty content is written to the path, whatever is there by now;
\* declining, or leaving the prompt, ends the flow, and so does a file
\* operation that is refused
ConfirmCreate(empty) ==
    /\ step = "confirm"
    /\ \E answer \in {Ok("Yes"), Ok("No")}
                       \cup {Err(e) : e \in PromptErrors("Failed to get user confirmation")},
          io \in EnsureOutcomes(empty) :
          IF answer = Ok("Yes")
          THEN CASE io = "ok" ->
                    /\ files' = [files EXCEPT ![expanded_path.v] = File(empty)]
                    /\ writes' = Append(writes, [path |-> expanded_path.v, text |-> empty])
                    /\ step' = "read"
                    /\ UNCHANGED flow_result
                 [] io = "create_dir_all" ->
                    /\ flow_result' = Some(Err(Error_msg(
                                           "Failed to create parent directories")))
                    /\ step' = "done"
                    /\ UNCHANGED <<files, writes>>
                 [] io = "open" ->
                    /\ flow_result' = Some(Err(Error_msg(
                                           "Failed to create configuration file")))
                    /\ step' = "done"
                    /\ UNCHANGED <<files, writes>>
                 [] io \in {"write", "short_write"} ->
                    /\ \E left \in LeftBy(empty, io) :
                          /\ files' = [files EXCEPT ![expanded_path.v] = File(left)]
                          /\ writes' = Append(writes, [path |-> expanded_path.v,
                                                       text |-> left])
                    /\ flow_result' = Some(Err(Error_msg(
                                           "Failed to create configuration file")))
                    /\ step' = "done"
          ELSE /\ flow_result' = Some(IF answer.ok
                                      THEN Err(Error_msg("Operation cancelled by user"))
                                      ELSE answer)
               /\ step' = "done"
               /\ UNCHANGED <<files, writes>>
    /\ UNCHANGED <<machine, run, calls, exe, flows, init, expanded_path, agent_config,
                   selected_hooks, choice, started, history>>

ClaudeEnsurePathExists == init.agent = "claude" /\ EnsurePathExists

CodexEnsurePathExists == init.agent = "codex" /\ EnsurePathExists

ClaudeConfirmCreate ==
    /\ init.agent = "claude"
    /\ ConfirmCreate(SerClaudeConfiguration(ClaudeConfiguration_default))

CodexConfirmCreate == init.agent = "codex" /\ ConfirmCreate(RawText(""))

\* a read_config that falls back to the configuration of an empty map when
\* the file does not parse
ReadConfig_lenient(r, printed) ==
    /\ step = "read"
    /\ stdout' = stdout \o printed
    /\ agent_config' = Some(IF r.ok THEN r.val
                            ELSE IF init.agent = "claude" THEN ClaudeConfiguration_default
                            ELSE CodexConfiguration_default)
    /\ step' = "prompt"
    /\ UNCHANGED flow_result
    /\ UNCHANGED <<machine, run_but_stdout, calls, exe, files, flows, init, expanded_path,
                   selected_hooks, choice, started, writes, history>>

\* read_config returned r: the configuration of the file, with the lines
\* initialize prints about it, or the end of the flow
ReadConfig(r, printed) ==
    /\ step = "read"
    /\ IF r.ok
       THEN /\ agent_config' = Some(r.val)
            /\ stdout' = stdout \o printed
            /\ step' = "prompt"
            /\ UNCHANGED flow_result
       ELSE /\ flow_result' = Some(r)
            /\ step' = "done"
            /\ UNCHANGED <<agent_config, stdout>>
    /\ UNCHANGED <<machine, run_but_stdout, calls, exe, files, flows, init, expanded_path,
                   selected_hooks, choice, started, writes, history>>

\* what the flow has once read_config and agent_command (notify_command)
\* returned: what the text of the file parses to, when read_to_string and
\* current_exe succeed; else the error of the one that failed
ReadOutcomes(parsed) ==
    {parsed, Err(Error_msg("Failed to read the configuration file: os error"))}
      \cup (IF parsed.ok THEN {Err(Error_msg("Failed to get current executable path"))}
            ELSE {})

ClaudeReadConfig ==
    /\ init.agent = "claude"
    /\ step = "read"
    /\ \E r \in ReadOutcomes(claude_read_config(files[expanded_path.v].text)) :
          \* config_exists: the file was there before ensure_path_exists
          IF r.ok /\ started[expanded_path.v].exists /\ DOMAIN r.val.hooks # {}
          THEN \E order \in Orders(DOMAIN r.val.hooks) :
                  ReadConfig(r, CurrentHookLines(r.val.hooks, order))
          ELSE ReadConfig(r, <<>>)

CodexReadConfig ==
    /\ init.agent = "codex"
    /\ step = "read"
    /\ \E r \in ReadOutcomes(codex_read_config(files[expanded_path.v].text)) :
          IF r.ok /\ r.val.notify.some
          THEN ReadConfig(r, CurrentNotifyLines(r.val.notify.v))
          ELSE ReadConfig(r, <<>>)

\* how fs::write of write_config ends: done, or refused when it opens the
\* file, or refused when it writes to the file it has emptied, before the
\* first byte ("write") or after a part of the text ("short_write")
WriteOutcomes == {"ok", "open", "write", "short_write"}

\* write_config, and the end of the flow: Ok(()) when the file is written.
\* The write of an empty text writes no byte, and is not refused.
WriteAndReturn(content, selected, answer, io) ==
    LET written == [files EXCEPT ![expanded_path.v] = File(content)]
    IN  CASE io = "ok" ->
             /\ files' = written
             /\ writes' = Append(writes, [path |-> expanded_path.v, text |-> content])
             /\ flow_result' = Some(Ok(Unit))
             /\ history' = Append(history, FlowRecord(init.agent, expanded_path.v,
                                                      selected, answer, started, written))
          [] io = "open" ->
             /\ flow_result' = Some(Err(Error_msg("Failed to write the configuration file")))
             /\ UNCHANGED <<files, writes, history>>
          [] io \in {"write", "short_write"} ->
             /\ content # RawText("")
             /\ \E left \in LeftBy(content, io) :
                   /\ files' = [files EXCEPT ![expanded_path.v] = File(left)]
                   /\ writes' = Append(writes, [path |-> expanded_path.v, text |-> left])
             /\ flow_result' = Some(Err(Error_msg("Failed to write the configuration file")))
             /\ UNCHANGED history

\* a Keep arm that writes the configuration it read back to the file
ReturnUnwritten_rewrites(answer) ==
    LET content == SerCodexConfiguration(agent_config.v)
        written == [files EXCEPT ![expanded_path.v] = File(content)]
    IN  /\ files' = written
        /\ writes' = Append(writes, [path |-> expanded_path.v, text |-> content])
        /\ flow_result' = Some(Ok(Unit))
        /\ history' = Append(history, FlowRecord(init.agent, expanded_path.v, <<>>,
                                                 answer, started, written))

\* the end of a flow that returns Ok(()) without writing
ReturnUnwritten(answer) ==
    /\ flow_result' = Some(Ok(Unit))
    /\ history' = Append(history, FlowRecord(init.agent, expanded_path.v, <<>>,
                                             answer, started, files))
    /\ UNCHANGED <<files, writes>>

\* the end of a flow whose prompt was not answered
ReturnError(error) ==
    /\ flow_result' = Some(error)
    /\ UNCHANGED <<files, writes, history>>

\* agent A: choose_hooks, with_selected_notification_hooks, write_config
ClaudeChooseHooks ==
    /\ step = "prompt"
    /\ init.agent = "claude"
    /\ \E answer \in {Ok(SelectionOf(kinds)) : kinds \in SUBSET SampleKinds}
                       \cup {Err(e) : e \in PromptErrors("Failed to get hook selection")},
          io \in WriteOutcomes :
          IF answer.ok
          THEN LET merged == with_selected_notification_hooks(
                                 agent_config.v, agent_command(exe), answer.val)
               IN  /\ selected_hooks' = Some(answer.val)
                   /\ agent_config' = Some(merged)
                   /\ WriteAndReturn(SerClaudeConfiguration(merged), answer.val, "", io)
                   /\ stdout' = stdout \o
                         (IF io = "ok"
                          THEN WrittenLines(CheckMark \o " Successfully configured Claude Code notifications",
                                            expanded_path.v)
                          ELSE <<>>)
          ELSE /\ ReturnError(answer)
               /\ UNCHANGED <<selected_hooks, agent_config, stdout>>
    /\ step' = "done"
    /\ UNCHANGED <<machine, run_but_stdout, calls, exe, flows, init, expanded_path, choice,
                   started>>

\* agent B: the line an arm that wrote the file prints first
Done(answer) ==
    CASE answer = "Override" -> CheckMark \o " Updated: notify now uses this tool"
      [] answer = "Remove"   -> Broom \o " Removed notify configuration"
      [] answer = "Yes"      -> CheckMark \o " Successfully configured notify"

\* agent B: the line of an arm that leaves the file alone
NothingDone(answer) ==
    CASE answer = "Keep" -> Info \o "  Keeping existing notify setting. No changes made."
      [] answer = "No"   -> Info \o "  No changes made."

\* agent B: the action prompt when notify is set, the confirmation when it
\* is not, then set_notify or clear_notify and write_config
CodexChooseAction ==
    /\ step = "prompt"
    /\ init.agent = "codex"
    /\ \E answer \in (IF agent_config.v.notify.some
                      THEN {Ok("Override"), Ok("Keep"), Ok("Remove")}
                             \cup {Err(e) : e \in PromptErrors(
                                                     "Failed to prompt for notify action")}
                      ELSE {Ok("Yes"), Ok("No")}
                             \cup {Err(e) : e \in PromptErrors(
                                                     "Failed to get confirmation")}),
          io \in WriteOutcomes :
          IF ~answer.ok
          THEN /\ ReturnError(answer)
               /\ UNCHANGED <<choice, agent_config, stdout>>
          ELSE /\ choice' = Some(answer.val)
               /\ IF answer.val \in {"Keep", "No"}
                  THEN /\ ReturnUnwritten(answer.val)
                       /\ stdout' = Append(stdout, Line(NothingDone(answer.val)))
                       /\ UNCHANGED agent_config
                  ELSE LET edited == IF answer.val = "Remove"
                                     THEN clear_notify(agent_config.v)
                                     ELSE set_notify(agent_config.v, notify_command(exe))
                       IN  /\ agent_config' = Some(edited)
                           /\ WriteAndReturn(SerCodexConfiguration(edited), <<>>,
                                             answer.val, io)
                           /\ stdout' = stdout \o
                                 (IF io = "ok"
                                  THEN WrittenLines(Done(answer.val), expanded_path.v)
                                  ELSE <<>>)
    /\ step' = "done"
    /\ UNCHANGED <<machine, run_but_stdout, calls, exe, flows, init, expanded_path,
                   selected_hooks, started>>

EditorNext ==
    \/ StartFlow
    \/ ClaudeChoosePath
    \/ ClaudeEnsurePathExists
    \/ ClaudeConfirmCreate
    \/ OtherProcessWrites
    \/ ClaudeReadConfig
    \/ ClaudeChooseHooks
    \/ CodexChoosePath
    \/ CodexEnsurePathExists
    \/ CodexConfirmCreate
    \/ CodexReadConfig
    \/ CodexChooseAction

EditorSpec == EditorInit /\ [][EditorNext]_vars

(***************************************************************************)
(* main with the command Init: the start of the process, the editor flow   *)
(* of the subcommand, and the exit status the process ends with.  No other *)
(* process writes the configuration files in these runs.                   *)
(***************************************************************************)
\* the command lines of Init: with or without --config, with the subcommand
\* of the agent or with none
InitCommandLines(agent) ==
    {[command |-> "Init", config |-> p, notification |-> None, init_command |-> c] :
        p \in {None, Some(CustomPath)}, c \in {None, Some(agent)}}

\* the configuration files the runs of Init start from: none, one an
\* earlier run wrote, one that read_config refuses
InitFiles(agent, current_exe) ==
    IF agent = "claude"
    THEN {Absent,
          File(JMap("hooks" :> JMap("Stop" :> JList(<<RawGroup("",
                   <<RawActionWithTimeout(agent_command(current_exe), 10)>>)>>)))),
          File(RawText("not json"))}
    ELSE {Absent,
          File(JMap(("notify" :> SerStrings(notify_command(current_exe))) @@ CodexOtherKeys)),
          File(RawText("not toml"))}

\* the runs of Init start on a machine without HOME, where expand_tilde
\* leaves every path as it is, on one with an empty HOME, or on one where
\* get_config_path finds no path
InitSpecInit ==
    /\ env \in {"xdg", "home_empty", "none"}
    /\ \E f \in {Absent, File("not json")} :
          fs = [p \in SettingsPaths |-> IF p = CustomPath THEN f ELSE Absent]
    /\ edits = 0
    /\ NoRun
    /\ calls = <<>>
    /\ exe = "/usr/local/bin/anot"
    /\ \E agent \in {"claude", "codex"} :
          /\ init = [agent |-> agent, path |-> None]
          /\ \E f \in InitFiles(agent, exe) :
                files = [p \in (IF agent = "claude" THEN ClaudePaths(env)
                                 ELSE CodexPaths(env)) |->
                           IF p = expand_tilde(HomeVar(env),
                                               IF agent = "claude"
                                               THEN "~/.claude/settings.json"
                                               ELSE "~/.codex/config.toml")
                           THEN f ELSE Absent]
    /\ NoFlow

\* a new process starts with the command Init: Cli::parse()
InitStart ==
    /\ pc \in {"idle", "exited"}
    /\ runs < MaxRuns /\ flows < MaxFlows
    /\ runs' = runs + 1
    /\ cli' \in InitCommandLines(init.agent)
    /\ pc' = "main"
    /\ config_path' = None /\ config' = None /\ input' = None /\ event' = None
    /\ sent' = None /\ result' = None
    /\ stdout' = <<>> /\ stderr' = <<>> /\ notifications' = <<>> /\ log' = <<>>
    /\ exit' = -1
    /\ step' = "idle"
    /\ expanded_path' = None /\ agent_config' = None
    /\ selected_hooks' = None /\ choice' = None /\ flow_result' = None
    /\ started' = <<>> /\ writes' = <<>>
    /\ UNCHANGED <<machine, calls, exe, files, flows, init, history>>

\* main, command Init with a subcommand: initialize_claude_configuration or
\* initialize_codex_configuration is called
InitCommand ==
    /\ pc = "loaded"
    /\ cli.command = "Init" /\ cli.init_command.some
    /\ step = "idle"
    /\ StartFlow

\* main, command Init without subcommand: print the help of the init
\* command that find_subcommand_mut finds, whose usage line names it without
\* the program
InitPrintHelp ==
    /\ pc = "loaded"
    /\ cli.command = "Init" /\ ~cli.init_command.some
    /\ stdout' = Append(stdout, Line("Usage: init [COMMAND]"))
    /\ exit' = 0
    /\ pc' = "exited"
    /\ UNCHANGED <<machine, runs, cli, locals, stderr, notifications, log>>
    /\ UNCHANGED <<calls, editor>>

\* a main that logs the error of the editor flow and returns Ok(()), as it
\* does for the event processors
InitReturn_logs ==
    /\ pc = "loaded"
    /\ step = "done"
    /\ log' = IF flow_result.v.ok THEN log
              ELSE Append(log, LogEvent("error", "failed to initialize"))
    /\ exit' = 0
    /\ pc' = "exited"
    /\ UNCHANGED <<machine, runs, cli, locals, stdout, stderr, notifications>>
    /\ UNCHANGED <<calls, editor>>

\* main: the ? on what the editor flow returned, then Ok(()); the process
\* ends with status 1 and the error on standard error when main returns Err
InitReturn ==
    /\ pc = "loaded"
    /\ step = "done"
    /\ IF flow_result.v.ok
       THEN /\ exit' = 0
            /\ UNCHANGED stderr
       ELSE /\ exit' = 1
            /\ stderr' = Append(stderr, ErrorLine(flow_result.v.err))
    /\ pc' = "exited"
    /\ UNCHANGED <<machine, runs, cli, locals, stdout, notifications, log>>
    /\ UNCHANGED <<calls, editor>>

InitNext ==
    \/ InitStart
    \/ ResolveConfigPath
    \/ LoadSettings
    \/ InitCommand
    \/ InitPrintHelp
    \/ ClaudeChoosePath
    \/ ClaudeEnsurePathExists
    \/ ClaudeConfirmCreate
    \/ ClaudeReadConfig
    \/ ClaudeChooseHooks
    \/ CodexChoosePath
    \/ CodexEnsurePathExists
    \/ CodexConfirmCreate
    \/ CodexReadConfig
    \/ CodexChooseAction
    \/ InitReturn

InitSpec == InitSpecInit /\ [][InitNext]_vars

(***************************************************************************)
(* Properties.                                                             *)
(***************************************************************************)
HasMember(o, k) == \E i \in 1..Len(o.m) : o.m[i].k = k
Member(o, k)    == o.m[CHOOSE i \in 1..Len(o.m) : o.m[i].k = k].v
Keys(o)         == {o.m[i].k : i \in 1..Len(o.m)}

\* the acknowledgment documents among what the run wrote to standard output
Acks == SelectSeq(stdout, LAMBDA d : d.kind = "json")

\* C1: process_claude_input writes exactly one acknowledgment document to
\* standard output on every path (parse failure, dispatch success, dispatch
\* failure): never two at any point, and exactly one once it has returned.
C1_ExactlyOneAcknowledgment ==
    cli.command = "Claude" =>
        /\ Len(stdout) <= 1
        /\ result.some => (Len(stdout) = 1 /\ Len(Acks) = 1)
        /\ (~result.some /\ pc # "exited") => stdout = <<>>

\* process_claude_input has returned the error of a failed dispatch
C1_Witness ==
    /\ cli.command = "Claude" /\ event.some /\ sent.some /\ ~sent.v.ok
    /\ result.some /\ Len(Acks) = 1

\* C2: every run of the agent-A dispatch command, from startup to exit,
\* writes exactly one acknowledgment to standard output, whichever path it
\* takes, a failure to load the settings file included.  Stated for the runs
\* that end by returning from main (exit status 0 or 1), not by a panic.
C2_OneAcknowledgmentPerRun ==
    (cli.command = "Claude" /\ pc = "exited" /\ exit \in {0, 1}) => Len(Acks) = 1

\* C3: when the agent-A input does not parse as a HookInput, one
\* acknowledgment is written with suppressOutput=false, a non-empty
\* systemMessage and continue=true, and process_claude_input returns an
\* error; the process does not panic.
C3_ParseFailureAcknowledged ==
    ( /\ cli.command = "Claude" /\ input.some /\ pc # "claude_parse"
      /\ ~from_str("HookInput", input.v).ok )
    =>  /\ Len(stdout) = 1 /\ stdout[1].kind = "json"
        /\ Member(stdout[1].v, "continue") = JBool(TRUE)
        /\ HasMember(stdout[1].v, "suppressOutput")
        /\ Member(stdout[1].v, "suppressOutput") = JBool(FALSE)
        /\ HasMember(stdout[1].v, "systemMessage")
        /\ Member(stdout[1].v, "systemMessage").t = "str"
        /\ Len(Member(stdout[1].v, "systemMessage").s) > 0
        /\ result.some /\ ~result.v.ok
        /\ notifications = <<>>
        /\ exit \in {-1, 0}

\* a JSON document without its session_id was processed and the run is over
C3_Witness ==
    /\ cli.command = "Claude" /\ pc = "exited" /\ exit = 0
    /\ input = Some("{\"transcript_path\":\"/t.jsonl\",\"hook_event_name\":\"Stop\"}"
                        \o LineEnd)
    /\ result = Some(Err("Failed to parse input JSON"))
    /\ Len(stdout) = 1

\* C4: for an agent-A event that parses and whose dispatch succeeds, the
\* acknowledgment is exactly {continue: true, suppressOutput: true}, with no
\* other member, and process_claude_input returns success.
C4_SuccessAcknowledgment ==
    (cli.command = "Claude" /\ sent.some /\ sent.v.ok /\ result.some)
    =>  /\ stdout = << Doc(JObj(<< KV("continue", JBool(TRUE)),
                                   KV("suppressOutput", JBool(TRUE)) >>)) >>
        /\ result.v.ok

\* a PreCompact event was shown and acknowledged
C4_Witness ==
    /\ cli.command = "Claude" /\ event.some /\ event.v.hook_event_name = "PreCompact"
    /\ sent = Some(Ok(Unit)) /\ result = Some(Ok(Unit))
    /\ Len(stdout) = 1 /\ Keys(stdout[1].v) = {"continue", "suppressOutput"}

\* C5: when an agent-A event parses and the platform notification fails, the
\* acknowledgment carries continue=true, suppressOutput=true and a
\* systemMessage describing the failure, and process_claude_input returns
\* the notification error.
C5_DispatchFailureAcknowledged ==
    (cli.command = "Claude" /\ sent.some /\ ~sent.v.ok /\ result.some)
    =>  /\ Len(stdout) = 1 /\ stdout[1].kind = "json"
        /\ Member(stdout[1].v, "continue") = JBool(TRUE)
        /\ HasMember(stdout[1].v, "suppressOutput")
        /\ Member(stdout[1].v, "suppressOutput") = JBool(TRUE)
        /\ HasMember(stdout[1].v, "systemMessage")
        /\ Member(stdout[1].v, "systemMessage")
             = JStr("Failed to send notification: " \o sent.v.err)
        /\ result.v = Err(NotifyError)

\* a Stop event whose notification failed was acknowledged
C5_Witness ==
    /\ cli.command = "Claude" /\ event.some /\ event.v.hook_event_name = "Stop"
    /\ sent = Some(Err(NotifyError)) /\ result = Some(Err(NotifyError))
    /\ Len(stdout) = 1 /\ HasMember(stdout[1].v, "systemMessage")

\* C6: a failure of event processing (parse error or notification error) in
\* the agent-A or the agent-B command never ends the run with a panic or a
\* non-zero status: main logs the error and exits with status 0.
C6_ProcessingFailureExitsCleanly ==
    (cli.command \in {"Claude", "Codex"} /\ result.some /\ ~result.v.ok)
    =>  /\ exit \in {-1, 0}
        /\ pc = "exited" =>
              /\ exit = 0
              /\ log # <<>>
              /\ log[Len(log)] = LogEvent("error",
                     IF cli.command = "Claude" THEN "failed to process Claude input"
                     ELSE "failed to process Codex input")

\* an agent-B run whose notification failed has exited
C6_Witness ==
    /\ cli.command = "Codex" /\ pc = "exited" /\ exit = 0
    /\ sent = Some(Err(NotifyError)) /\ result = Some(Err(NotifyError))

\* the kind-specific optional fields of a HookInput
KindSpecificFields ==
    {"tool_name", "tool_input", "tool_response", "message", "prompt", "stop_hook_active",
     "trigger", "custom_instructions", "source", "reason"}

\* the body of each agent-A kind when its optional fields are absent
FallbackBody ==
    [PreToolUse       |-> "The agent is trying to use a unknown tool",
     PostToolUse      |-> "The agent has used a unknown tool",
     Notification     |-> "The agent didn't provide any message.",
     UserPromptSubmit |-> "User prompt submitted: unknown",
     Stop             |-> "The agent has stopped responding.",
     SubagentStop     |-> "A subagent has stopped responding.",
     PreCompact       |-> "The agent is about to compact the conversation. Trigger: unknown",
     SessionStart     |-> "The agent has started a new session.",
     SessionEnd       |-> "The agent has ended the session because unknown"]

\* C7: for each of the nine agent-A kinds, when every kind-specific optional
\* field is absent, send_notification makes its platform call with the body
\* of the table with the fallback text substituted.
C7_FallbackBodies ==
    ( /\ cli.command = "Claude" /\ event.some /\ sent.some
      /\ \A f \in KindSpecificFields : ~event.v[f].some )
    =>  /\ Len(notifications) = 1
        /\ notifications[1].body = FallbackBody[event.v.hook_event_name]

\* a PostToolUse event without a tool name was shown
C7_Witness ==
    /\ cli.command = "Claude" /\ event.some /\ event.v.hook_event_name = "PostToolUse"
    /\ \A f \in KindSpecificFields : ~event.v[f].some
    /\ sent = Some(Ok(Unit))
    /\ Len(notifications) = 1

\* the event kind is one the dispatcher shows
Recognized == cli.command = "Claude" \/ event.v.type = "AgentTurnComplete"

\* C8: dispatching a parsed event makes exactly one platform call when the
\* kind is recognized and none for agent-B Unknown; a failed call is
\* returned as the error and is not made again.
C8_OneCallPerRecognizedEvent ==
    event.some =>
        /\ Len(notifications) = IF sent.some /\ Recognized THEN 1 ELSE 0
        /\ (sent.some /\ ~Recognized) => sent.v.ok
        /\ (sent.some /\ ~sent.v.ok /\ result.some) => result.v = sent.v

\* an agent-A notification failed and the run is over
C8_Witness ==
    /\ cli.command = "Claude" /\ pc = "exited" /\ event.some
    /\ sent.some /\ ~sent.v.ok /\ Len(notifications) = 1

\* the message of an AgentTurnComplete event, in the order of priority
C9_Message(e) ==
    LET lam == e.last_assistant_message
        im  == e.input_messages
    IN  CASE lam.some /\ ~IsBlank(lam.v) -> lam.v
          [] ~(lam.some /\ ~IsBlank(lam.v)) /\ im.some /\ ~IsBlank(JoinWith(im.v, " "))
               -> JoinWith(im.v, " ")
          [] OTHER -> "Turn Complete!"

\* C9: the body of an agent-B AgentTurnComplete notification is
\* "Turn Completed: " followed by the last-assistant-message when it is
\* present and not blank, otherwise by the join of the input messages (when
\* there are some and their join is not blank), otherwise by "Turn Complete!".
C9_TurnCompleteBody ==
    (cli.command = "Codex" /\ event.some /\ event.v.type = "AgentTurnComplete" /\ sent.some)
    =>  /\ Len(notifications) = 1
        /\ notifications[1].body = "Turn Completed: " \o C9_Message(event.v)

\* a blank last-assistant-message gave way to the joined input messages
C9_Witness ==
    /\ cli.command = "Codex" /\ event.some /\ sent.some
    /\ event.v.last_assistant_message = Some(" ")
    /\ event.v.input_messages = Some(<<"fix", "fix">>)
    /\ Len(notifications) = 1
    /\ notifications[1].body = "Turn Completed: fix fix"

C10_UnderscoreInput ==
    "{\"type\":\"agent-turn-complete\",\"last_assistant_message\":\"Done.\"}"

C10_HyphenInput ==
    "{\"type\":\"agent-turn-complete\",\"last-assistant-message\":\"Done.\"}"

\* C10 as stated: the agent-B input
\* {"type":"agent-turn-complete","last_assistant_message":"Done."} is
\* dispatched with the body "Turn Completed: Done.".
C10_UnderscoreInputBody ==
    (cli.command = "Codex" /\ input = Some(C10_UnderscoreInput) /\ sent.some)
    =>  /\ Len(notifications) = 1
        /\ notifications[1].body = "Turn Completed: Done."

\* C10 amended: the input with the field spelled last-assistant-message is
\* dispatched with the body "Turn Completed: Done."; spelled with
\* underscores the field is an unknown key, and the body is
\* "Turn Completed: Turn Complete!".
C10_HyphenInputBody ==
    (cli.command = "Codex" /\ sent.some /\ input \in {Some(C10_HyphenInput),
                                                       Some(C10_UnderscoreInput)})
    =>  /\ Len(notifications) = 1
        /\ input = Some(C10_HyphenInput) =>
              notifications[1].body = "Turn Completed: Done."
        /\ input = Some(C10_UnderscoreInput) =>
              notifications[1].body = "Turn Completed: Turn Complete!"

\* the hyphen-spelled input was dispatched
C10_Witness ==
    /\ cli.command = "Codex" /\ input = Some(C10_HyphenInput) /\ sent.some
    /\ event.v.last_assistant_message = Some("Done.")
    /\ Len(notifications) = 1

\* the JSON document of the agent-B input, when it is one whose type member
\* is a string other than "agent-turn-complete" and whose other members are
\* what a CodexNotificationInput takes
C11_UnrecognizedType ==
    /\ cli.command = "Codex" /\ input.some
    /\ JsonParse(input.v).ok
    /\ LET v == JsonParse(input.v).val
       IN  /\ v.t = "obj"
           /\ Len(SelectSeq(v.m, LAMBDA e : e.k = "type")) = 1
           /\ Member(v, "type").t = "str"
           /\ Member(v, "type").s # "agent-turn-complete"
           /\ from_str("CodexNotificationInput",
                       ToJson(JObj(<<KV("type", JStr("agent-turn-complete"))>>
                                     \o SelectSeq(v.m, LAMBDA e : e.k # "type")))).ok

\* C11: an agent-B payload whose type is an unrecognized string parses into
\* the Unknown variant instead of failing; processing it makes no platform
\* call, logs a warning, and returns success.
C11_UnknownTypeIsSkipped ==
    (C11_UnrecognizedType /\ pc \notin {"loaded", "codex_parse"})
    =>  /\ event.some /\ event.v.type = "Unknown"
        /\ notifications = <<>>
        /\ sent.some =>
              /\ log = <<LogEvent("warn", "unknown Codex notification type")>>
              /\ result = Some(Ok(Unit))
              /\ stdout = <<>> /\ stderr = <<>>
        /\ pc = "exited" => (sent.some /\ exit = 0)

\* the input {"type":"some-future-type"} was processed and the run is over
C11_Witness ==
    /\ cli.command = "Codex" /\ input = Some("{\"type\":\"some-future-type\"}")
    /\ pc = "exited" /\ event.some /\ event.v.type = "Unknown"
    /\ result = Some(Ok(Unit)) /\ notifications = <<>> /\ Len(log) = 1

\* C12: when the agent-B input does not parse, process_codex_input returns a
\* parse error at once, with nothing written to standard output and no
\* platform call; when it parses, what send_notification returned (success
\* or the notification error) is returned unchanged.
C12_ParseFailureOrDispatchResult ==
    (cli.command = "Codex" /\ input.some /\ pc # "codex_parse")
    =>  LET r == from_str("CodexNotificationInput", input.v)
        IN  IF ~r.ok
            THEN /\ result = Some(Err("Failed to parse Codex notification JSON: " \o r.err))
                 /\ event = None /\ sent = None
                 /\ stdout = <<>> /\ notifications = <<>>
            ELSE /\ event = Some(r.val)
                 /\ result = sent
                 /\ stdout = <<>>
                 /\ (sent.some /\ event.v.type = "AgentTurnComplete") =>
                       Len(notifications) = 1

\* an agent-B input that is not JSON was refused, and the run is over
C12_Witness ==
    /\ cli.command = "Codex" /\ input = Some("not json") /\ pc = "exited"
    /\ result = Some(Err("Failed to parse Codex notification JSON: syntax error"))
    /\ stdout = <<>> /\ notifications = <<>>

\* the documented defaults
C13_Defaults == [version |-> 1, claude |-> [pretend |-> TRUE], codex |-> [pretend |-> FALSE]]

\* the i-th call is a load of a path where no file exists, which the file
\* system lets through
C13_LoadOfMissingFile(i) ==
    calls[i].op = "initialize_configuration" /\ ~calls[i].before.exists
      /\ calls[i].io = "ok"

\* C13: initialize_configuration on a path that does not exist creates a
\* file holding the documented defaults (version 1, agent-A pretend true,
\* agent-B pretend false) and returns that record; a second load of the same
\* path returns the same record and leaves the file as it is (in calls that
\* the file system lets through).
C13_LoadCreatesDefaults ==
    \A i \in 1..Len(calls) :
        C13_LoadOfMissingFile(i) =>
            /\ calls[i].after.exists
            /\ JsonParse(calls[i].after.text) = Ok(ConfigValue(1, TRUE, FALSE))
            /\ calls[i].result = Ok(C13_Defaults)
            /\ ( /\ i < Len(calls)
                 /\ calls[i + 1].op = "initialize_configuration"
                 /\ calls[i + 1].path = calls[i].path
                 /\ calls[i + 1].io = "ok" )
               =>  /\ calls[i + 1].before = calls[i].after
                   /\ calls[i + 1].result = calls[i].result
                   /\ calls[i + 1].after = calls[i].after

\* a missing file was loaded twice in a row
C13_Witness ==
    /\ Len(calls) >= 2
    /\ C13_LoadOfMissingFile(1)
    /\ calls[2].op = "initialize_configuration" /\ calls[2].path = calls[1].path
    /\ calls[2].io = "ok"
    /\ calls[2].result = Ok(C13_Defaults)

\* C14: whatever the settings file at a path held (nothing, a valid record,
\* a text that does not parse), reset_configuration(path) followed by
\* initialize_configuration(path) returns the default record (in calls that
\* the file system lets through).
C14_ResetThenLoadIsDefault ==
    \A i \in 1..Len(calls) :
        ( /\ calls[i].op = "reset_configuration" /\ calls[i].io = "ok"
          /\ i < Len(calls)
          /\ calls[i + 1].op = "initialize_configuration" /\ calls[i + 1].io = "ok"
          /\ calls[i + 1].path = calls[i].path )
        =>  /\ calls[i + 1].result.ok
            /\ calls[i + 1].result.val = C13_Defaults
            /\ calls[i + 1].after = calls[i].after

\* a file that did not parse was reset and then loaded
C14_Witness ==
    /\ Len(calls) >= 2
    /\ calls[1].op = "reset_configuration" /\ calls[1].before = File("not json")
    /\ calls[1].io = "ok"
    /\ calls[2].op = "initialize_configuration" /\ calls[2].path = calls[1].path
    /\ calls[2].io = "ok"
    /\ calls[2].result.ok

\* no key of the object is met twice
C15_DistinctKeys(v) == \A i, j \in 1..Len(v.m) : v.m[i].k = v.m[j].k => i = j

\* an agent section that is well-formed: an object whose pretend flag, when
\* it is there, is a boolean
C15_SectionWellFormed(v) ==
    /\ v.t = "obj" /\ C15_DistinctKeys(v)
    /\ HasMember(v, "pretend") => Member(v, "pretend").t = "bool"

\* a settings document that is well-formed, whichever fields it omits
C15_WellFormed(v) ==
    /\ v.t = "obj" /\ C15_DistinctKeys(v)
    /\ HasMember(v, "version") => (Member(v, "version").t = "num" /\ Member(v, "version").n >= 0)
    /\ HasMember(v, "claude") => C15_SectionWellFormed(Member(v, "claude"))
    /\ HasMember(v, "codex") => C15_SectionWellFormed(Member(v, "codex"))

C15_Pretend(v, agent, default) ==
    IF HasMember(v, agent) /\ HasMember(Member(v, agent), "pretend")
    THEN Member(Member(v, agent), "pretend").b
    ELSE default

\* the record of a well-formed document, each missing field at its default
C15_WithDefaults(v) ==
    [version |-> IF HasMember(v, "version") THEN Member(v, "version").n ELSE 1,
     claude  |-> [pretend |-> C15_Pretend(v, "claude", TRUE)],
     codex   |-> [pretend |-> C15_Pretend(v, "codex", FALSE)]]

\* C15: initialize_configuration on an existing file that is well-formed but
\* omits a field succeeds and returns the record with every missing field at
\* its documented default; it fails only when the file is not valid.
C15_MissingFieldsTakeDefaults ==
    \A i \in 1..Len(calls) :
        ( /\ calls[i].op = "initialize_configuration" /\ calls[i].before.exists
          /\ calls[i].io = "ok" ) =>
            LET p == JsonParse(calls[i].before.text)
            IN  (p.ok /\ C15_WellFormed(p.val)) =>
                   /\ calls[i].result.ok
                   /\ calls[i].result.val = C15_WithDefaults(p.val)

\* an agent-A flow has merged and written, and returned Ok(())
ClaudeFlowDone ==
    init.agent = "claude" /\ step = "done" /\ flow_result = Some(Ok(Unit))

\* the top-level keys of a file content
TopLevel(content) == IF content.t = "map" THEN content.f ELSE EmptyMap

\* the handler actions registered on an event kind, over all its groups
RECURSIVE ActionsOf(_)
ActionsOf(event_hooks) ==
    IF event_hooks = <<>> THEN <<>>
    ELSE Head(event_hooks).hooks \o ActionsOf(Tail(event_hooks))

ActionsOn(cfg, kind) == IF kind \in DOMAIN cfg.hooks THEN ActionsOf(cfg.hooks[kind]) ELSE <<>>

\* C16: the agent-A merge is idempotent: when a flow that selected a set of
\* event kinds is followed by a flow on the same file with the same
\* selection and the same handler command, the second writes the document
\* the first wrote, with no handler entry added.
C16_MergeIsIdempotent ==
    \A i \in 1..Len(history) :
        ( /\ i < Len(history)
          /\ history[i].agent = "claude"
          /\ history[i + 1].path = history[i].path
          /\ history[i + 1].selected = history[i].selected )
        =>  history[i + 1].after[history[i].path] = history[i].after[history[i].path]

\* the action is this tool's: it carries the command of this program, or the
\* editor takes it for one of its own
C17_Attributable(action) ==
    action.command = agent_command(exe) \/ is_our_notification_action(action)

\* C17: after the agent-A merge, whatever the file held, every selected
\* event kind has exactly one handler action attributable to this tool, and
\* it carries this program's command and the timeout 10.
C17_OneEntryPerSelectedEvent ==
    ClaudeFlowDone =>
        \A kind \in Range(selected_hooks.v) :
            LET ours == SelectSeq(ActionsOn(agent_config.v, kind), C17_Attributable)
            IN  ours = <<ActionConfiguration(agent_command(exe), Some(10))>>

\* the configuration the current flow read from the file it then rewrote
\* (the default one when the flow created the file)
ConfigBefore ==
    IF started[expanded_path.v].exists
    THEN claude_read_config(started[expanded_path.v].text).val
    ELSE ClaudeConfiguration_default

\* C18: the agent-A merge leaves every handler action of another tool in
\* place: an action that is not this tool's is still registered on the same
\* event kind after the merge, also when it shares a matcher group with one
\* of this tool's actions.
C18_ThirdPartyEntriesKept ==
    ClaudeFlowDone =>
        \A kind \in DOMAIN ConfigBefore.hooks :
            \A action \in Range(ActionsOn(ConfigBefore, kind)) :
                ~is_our_notification_action(action) =>
                    action \in Range(ActionsOn(agent_config.v, kind))

\* C19: every top-level key of the existing file other than hooks is in the
\* file the agent-A flow writes, with the same value.
C19_OtherKeysSurvive ==
    (ClaudeFlowDone /\ started[expanded_path.v].exists) =>
        LET before == TopLevel(started[expanded_path.v].text)
            after  == TopLevel(files[expanded_path.v].text)
        IN  /\ files[expanded_path.v].text.t = "map"
            /\ \A k \in (DOMAIN before) \ {"hooks"} :
                  k \in DOMAIN after /\ after[k] = before[k]
            /\ (DOMAIN after) \ {"hooks"} = (DOMAIN before) \ {"hooks"}

\* a file with a model, permissions and another tool's handler was rewritten
\* with two event kinds selected
C19_Witness ==
    /\ ClaudeFlowDone /\ started[expanded_path.v].exists
    /\ DOMAIN TopLevel(started[expanded_path.v].text) = {"model", "permissions", "hooks"}
    /\ Len(selected_hooks.v) = 2
    /\ Len(writes) = 1
    /\ TopLevel(files[expanded_path.v].text)["model"] = JStr("opus")
    /\ files # started

\* an agent-B flow on a file with notify set has ended with the answer
C20_Answered(answer) ==
    /\ init.agent = "codex" /\ step = "done" /\ flow_result = Some(Ok(Unit))
    /\ choice = Some(answer)
    /\ started[expanded_path.v].exists
    /\ "notify" \in DOMAIN TopLevel(started[expanded_path.v].text)

\* the keys other than notify are those of the file the flow found
C20_OtherKeysUnchanged ==
    LET before == TopLevel(started[expanded_path.v].text)
        after  == TopLevel(files[expanded_path.v].text)
    IN  /\ (DOMAIN after) \ {"notify"} = (DOMAIN before) \ {"notify"}
        /\ \A k \in (DOMAIN before) \ {"notify"} : after[k] = before[k]

\* C20: in the agent-B editor with notify already set, Override writes a
\* file whose notify is this program's command and whose other top-level
\* keys are unchanged; Remove writes a file with no notify and the other
\* keys unchanged.
C20_OverrideAndRemove ==
    /\ C20_Answered("Override") =>
          /\ Len(writes) = 1
          /\ "notify" \in DOMAIN TopLevel(files[expanded_path.v].text)
          /\ TopLevel(files[expanded_path.v].text)["notify"]
               = JList(<<JStr(exe), JStr("codex")>>)
          /\ C20_OtherKeysUnchanged
    /\ C20_Answered("Remove") =>
          /\ Len(writes) = 1
          /\ "notify" \notin DOMAIN TopLevel(files[expanded_path.v].text)
          /\ C20_OtherKeysUnchanged

\* the notify command of another tool was overridden in a file with other keys
C20_Witness ==
    /\ C20_Answered("Override")
    /\ TopLevel(started[expanded_path.v].text)["notify"]
         = JList(<<JStr("notify-send"), JStr("Codex")>>)
    /\ DOMAIN TopLevel(files[expanded_path.v].text) = {"notify", "model", "tui"}

\* C21: in the agent-B editor, the answer Keep (notify set) or No (notify
\* unset) writes nothing: the step that takes the answer leaves every file
\* as it was before the choice, adds no write, and the flow returns Ok(()).
C21_KeepWritesNothing ==
    [][ ( /\ init.agent = "codex" /\ step = "prompt"
          /\ choice' \in {Some("Keep"), Some("No")} )
        =>  /\ choice' = Some(IF agent_config.v.notify.some THEN "Keep" ELSE "No")
            /\ files' = files
            /\ writes' = writes
            /\ step' = "done"
            /\ flow_result' = Some(Ok(Unit)) ]_vars

\* a flow kept the notify command of another tool, and a later flow on a
\* file it created declined to set notify: both files are as they were
\* before the choice
C21_Witness ==
    /\ init.agent = "codex" /\ step = "done" /\ flow_result = Some(Ok(Unit))
    /\ Len(history) = 2
    /\ history[1].choice = "Keep"
    /\ history[1].after = history[1].before
    /\ "notify" \in DOMAIN TopLevel(history[1].before[history[1].path].text)
    /\ history[2].choice = "No"
    /\ choice = Some("No")
    /\ ~started[expanded_path.v].exists
    /\ writes = <<[path |-> expanded_path.v, text |-> RawText("")]>>
    /\ files[expanded_path.v] = File(RawText(""))

\* the file at a path once the flow's writes so far are applied to the files
\* the flow started from
RECURSIVE Applied(_, _)
Applied(before, written) ==
    IF written = <<>> THEN before
    ELSE Applied([before EXCEPT ![Head(written).path] = File(Head(written).text)],
                 Tail(written))

\* another process has written a file since the flow started, and the flow
\* has not written over it
Disturbed == step # "idle" /\ files # Applied(started, writes)

\* the flow has ended on a prompt that was cancelled, declined or interrupted
FlowCancelled ==
    /\ step = "done" /\ flow_result.some
    /\ ~flow_result.v.ok /\ flow_result.v.err \in CancelErrors

\* C22: in both editor flows, a cancellation at any prompt ends the flow
\* with the cancelled condition and without file mutation: when no other
\* process wrote meanwhile, the files after the cancelled flow are the files
\* before the flow started (no file was created or overwritten).
C22_CancelLeavesFilesUntouched ==
    (FlowCancelled /\ ~Disturbed) => (files = started /\ writes = <<>>)

\* the settings file main loads: --config, else the resolved path
LoadedPath == unwrap_or(cli.config, config_path.v)

\* C23: a process run with the command Init exits with a status that is not
\* zero when no settings path can be resolved, when the settings file
\* cannot be loaded (it exits with zero only when the settings are loaded
\* and the file is there and parses), and when the editor flow returns a
\* failure; it exits with zero when the editor flow completes.
C23_ExitStatus ==
    (pc = "exited" /\ cli.command = "Init") =>
        /\ ~get_config_path(env).some => exit # 0
        /\ (get_config_path(env).some /\ exit = 0) =>
              /\ config.some
              /\ fs[LoadedPath].exists
              /\ from_str("Config", fs[LoadedPath].text).ok
        /\ (flow_result.some /\ ~flow_result.v.ok) => exit # 0
        /\ (flow_result.some /\ flow_result.v.ok) => exit = 0

\* after a run whose editor flow completed, a second run ended on a flow
\* that the user cancelled
C23_Witness ==
    /\ pc = "exited" /\ cli.command = "Init" /\ runs = 2
    /\ Len(history) = 1
    /\ flow_result = Some(Err(Error_msg("Operation cancelled by user")))
    /\ exit = 1
    /\ stderr = <<Line("Error: Operation cancelled by user")>>

\* read_config of the agent of the flow, on a file content
read_config(content) ==
    IF init.agent = "claude" THEN claude_read_config(content) ELSE codex_read_config(content)

\* the order of the steps of a flow; a flow may end at any prompt or read
FlowOrder ==
    { <<"idle", "choose_path">>, <<"done", "choose_path">>,
      <<"choose_path", "ensure_path">>, <<"ensure_path", "read">>,
      <<"ensure_path", "confirm">>, <<"confirm", "read">>,
      <<"read", "prompt">>, <<"prompt", "done">>,
      <<"choose_path", "done">>, <<"confirm", "done">>, <<"read", "done">> }

\* the step taken overwrites an existing file
Overwrites ==
    \E p \in DOMAIN files : files[p].exists /\ files'[p] # files[p]

\* C24: each editor flow goes through its steps in the order choose path,
\* ensure the file exists (with the confirmation for a missing one), read,
\* prompt, merge and write, done; a file the flow found or wrote is
\* overwritten at most once in a flow, in the step that ends the
\* flow (with Ok(()), or with the error of a write that was refused), after
\* the last prompt was answered, and it is the chosen file only; the prompt
\* is reached only from a read step that parsed the file as it is, into the
\* configuration the flow goes on with; a file another process created while the confirmation
\* waited is overwritten by the creation the user confirms, and by nothing
\* else; when the existing file does not parse, the read step ends the flow
\* with an error (that of the parse, or of a read that was refused) and the
\* files are as the flow found them.
C24_WriteOnceAfterReadAndPrompts ==
    [][ /\ step' # step => <<step, step'>> \in FlowOrder
        /\ Overwrites =>
              IF Disturbed
              THEN /\ step = "confirm" /\ ~started[expanded_path.v].exists
                   /\ writes' = Append(writes, [path |-> expanded_path.v,
                                                text |-> files'[expanded_path.v].text])
                   /\ \A p \in DOMAIN files : p # expanded_path.v => files'[p] = files[p]
              ELSE /\ step = "prompt" /\ step' = "done"
                   /\ agent_config.some
                   /\ (selected_hooks'.some \/ choice'.some)
                   /\ flow_result' \in
                         {Some(Ok(Unit)),
                          Some(Err(Error_msg("Failed to write the configuration file")))}
                   /\ \A p \in DOMAIN files : p # expanded_path.v => files'[p] = files[p]
                   /\ \A i \in 1..Len(writes) : ~started[writes[i].path].exists
        /\ (step = "read" /\ step' = "prompt") =>
              /\ read_config(files[expanded_path.v].text) = Ok(agent_config'.v)
              /\ files' = files
        /\ ( /\ step = "read" /\ step' # step
             /\ started[expanded_path.v].exists
             /\ ~read_config(started[expanded_path.v].text).ok )
           =>  /\ step' = "done"
               /\ flow_result'.some /\ ~flow_result'.v.ok
               /\ flow_result'.v.err \in
                     {read_config(started[expanded_path.v].text).err,
                      Error_msg("Failed to read the configuration file: os error")}
               /\ files' = started /\ writes' = <<>> ]_vars

\* after a flow that created and then wrote a file, a flow on a file that is
\* not JSON ended with the parse error and left the file as it was
C24_Witness ==
    /\ init.agent = "claude" /\ step = "done" /\ flows = 2
    /\ Len(history) = 1
    /\ history[1].after[history[1].path] # history[1].before[history[1].path]
    /\ expanded_path.some
    /\ started[expanded_path.v] = File(RawText("not json"))
    /\ flow_result = Some(Err(ParseError("Failed to parse the configuration file",
                                         "syntax error", RawText("not json"))))
    /\ files = started

\* C25: after the agent-A merge, no event kind outside the selected set
\* holds a handler action of this tool, so that an empty selection leaves
\* none at all, and no event kind of the resulting hooks map has an empty
\* handler list.
C25_NoEntryOutsideSelection ==
    ClaudeFlowDone =>
        \A kind \in DOMAIN agent_config.v.hooks :
            /\ agent_config.v.hooks[kind] # <<>>
            /\ kind \notin Range(selected_hooks.v) =>
                  \A action \in Range(ActionsOn(agent_config.v, kind)) :
                      ~C17_Attributable(action)

\* C26: Reset acts on the default settings path only and returns before any
\* settings load: the step of the Reset command leaves every other file,
\* the file given with --config among them, as it was, loads no settings,
\* reports success on standard output, the default path then holding the
\* defaults, or the failure on standard error, whatever the refused
\* operation left at the default path, and ends the process with status
\* zero.
C26_ResetIgnoresConfigOption ==
    [][ (pc = "resolved" /\ cli.command = "Reset") =>
          /\ \A p \in DOMAIN fs : p # get_config_path(env).v => fs'[p] = fs[p]
          /\ config' = None
          /\ calls' = calls
          /\ \/ /\ fs'[get_config_path(env).v] = File(ToJson(ConfigValue(1, TRUE, FALSE)))
                /\ stdout' = Append(stdout, Line("Configuration reset to default at "
                                                    \o get_config_path(env).v))
                /\ stderr' = stderr
             \/ /\ stdout' = stdout
                /\ \E op \in {"remove_file", "create", "write"} :
                      stderr' = Append(stderr, Line("Failed to reset configuration: "
                                                       \o IoError(op)))
          /\ pc' = "exited" /\ exit' = 0 ]_vars

\* after --config P reset, the file at P holds the settings the user left
\* there, which are not the defaults, and the default path holds the defaults
C26_Witness ==
    /\ pc = "exited" /\ exit = 0
    /\ cli.command = "Reset" /\ cli.config = Some(CustomPath)
    /\ stdout # <<>>
    /\ fs[CustomPath].exists
    /\ from_str("Config", fs[CustomPath].text).ok
    /\ from_str("Config", fs[CustomPath].text).val # Config_default
    /\ fs[get_config_path(env).v] = File(ToJson(SerializeConfig(Config_default)))

\* C27: in agent-A event processing the steps are ordered parse, then
\* notification call, then acknowledgment write: the notification call is
\* made after the input was parsed and before anything is written, the
\* acknowledgment is written after the call has returned, or at once when
\* the input does not parse, and then no notification call is made.
C27_ParseNotifyAcknowledge ==
    /\ [][ (cli.command = "Claude" /\ pc # "exited") =>
             /\ notifications' # notifications =>
                   /\ pc = "claude_send"
                   /\ from_str("HookInput", input.v) = Ok(event.v)
                   /\ stdout = <<>> /\ stdout' = <<>>
                   /\ sent = None /\ sent'.some
             /\ stdout' # stdout =>
                   \/ /\ pc = "claude_ack"
                      /\ sent.some /\ Len(notifications) = 1
                      /\ notifications' = notifications
                   \/ /\ pc = "claude_parse"
                      /\ ~from_str("HookInput", input.v).ok
                      /\ notifications = <<>> /\ notifications' = <<>> ]_vars
    /\ [] ( ( /\ cli.command = "Claude"
              /\ pc \in {"claude_done", "exited"}
              /\ input.some
              /\ ~from_str("HookInput", input.v).ok )
            =>  notifications = <<>> /\ Len(stdout) = 1 /\ sent = None )

\* a run of agent-A processing parsed its input, made the notification call,
\* which failed, wrote the acknowledgment of the failure and ended
C27_Witness ==
    /\ cli.command = "Claude" /\ pc = "exited"
    /\ event.some
    /\ Len(notifications) = 1
    /\ sent = Some(Err(NotifyError))
    /\ stdout = <<Doc(SerializeHookOutput(NotifyFailureOutput(NotifyError)))>>

====
